---- MODULE Spec2Model ----
(***************************************************************************)
(* A model of the song-request bot: the chat message handler (!sr, !np,    *)
(* !skip), the per-user Google session cache, the YouTube playlist client  *)
(* (src/lib/google.ts), the direct-link parser and the channel watcher     *)
(* that joins and parts channels every five minutes.                       *)
(*                                                                         *)
(* Texts are sequences of one-character strings, so that toLowerCase,      *)
(* trim, startsWith, slice and the three URL regular expressions are       *)
(* computed character by character as the code computes them.              *)
(***************************************************************************)
EXTENDS Integers, Sequences, FiniteSets, TLC

VARIABLES
    exText,     \* extractYouTubeVideoId: the text it is called with
    exResult,   \* extractYouTubeVideoId: the value it returned
    exPc,       \* "ready" before the call, "done" after it
    sbQuery,    \* searchBestMatch: the query it is called with
    sbResults,  \* searchBestMatch: what ytmusic.search(query) resolves to
    sbOut,      \* searchBestMatch: the SongPick or null it returned
    sbPc,       \* "ready" before the call, then "done" or "thrown"
    db,               \* prisma.user: the row of every user
    googleInstances,  \* the Map of Google instances per user id
    nextInstance,     \* the Google instances constructed so far, plus one
    playlists,        \* YouTube: the playlists of every user's account
    items,            \* YouTube: the items of every playlist, in order
    nextPlaylistId,   \* YouTube: the id the next new playlist gets
    nextItemId,       \* YouTube: the id the next new playlist item gets
    procs,            \* the running message handlers and client calls
    everHead,         \* history: the items that have been first in a playlist
    lastEnsure,       \* history: the last ensurePlaylist call that ran alone
    channels,         \* the names of the channels the chat client has joined
    active,           \* prisma.user: the names of the rows with isActive true
    ticks             \* the runs of the channel watcher callback

exVars == <<exText, exResult, exPc>>

sbVars == <<sbQuery, sbResults, sbOut, sbPc>>

dbVars == <<db, googleInstances, nextInstance>>

ytVars == <<playlists, items, nextPlaylistId, nextItemId, everHead>>

botVars == <<dbVars, ytVars, procs, lastEnsure>>

reVars == <<channels, active, ticks>>

vars == <<exVars, sbVars, botVars, reVars>>

\* An optional value (JavaScript null / undefined, or a value): the empty
\* sequence, or the sequence of the one value.
None == <<>>

Some(v) == <<v>>

\* ------------------------------------------------------------------------
\* Characters and strings
\* ------------------------------------------------------------------------

UpperChars == <<"A","B","C","D","E","F","G","H","I","J","K","L","M",
                "N","O","P","Q","R","S","T","U","V","W","X","Y","Z">>

LowerChars == <<"a","b","c","d","e","f","g","h","i","j","k","l","m",
                "n","o","p","q","r","s","t","u","v","w","x","y","z">>

DigitChars == {"0","1","2","3","4","5","6","7","8","9"}

\* One character of String.prototype.toLowerCase.
LowerChar(c) ==
    IF \E i \in 1..26 : UpperChars[i] = c
    THEN LowerChars[CHOOSE i \in 1..26 : UpperChars[i] = c]
    ELSE c

\* String.prototype.toLowerCase.
ToLowerCase(s) == [i \in 1..Len(s) |-> LowerChar(s[i])]

\* String.prototype.trim: the white space at both ends is dropped.
Trim(s) ==
    LET ns == {i \in 1..Len(s) : s[i] # " "}
    IN  IF ns = {} THEN <<>>
        ELSE SubSeq(s, CHOOSE i \in ns : \A j \in ns : i <= j,
                       CHOOSE i \in ns : \A j \in ns : j <= i)

\* String.prototype.startsWith.
StartsWith(s, p) == Len(s) >= Len(p) /\ SubSeq(s, 1, Len(p)) = p

\* String.prototype.slice(n): the text from 0-based index n to the end.
Slice(s, n) == SubSeq(s, n + 1, Len(s))

\* Whether the literal lit (given in lower case) stands in s at position p,
\* compared as a regular expression with the i flag compares it.
LitAt(s, p, lit) ==
    /\ p >= 1
    /\ p + Len(lit) - 1 <= Len(s)
    /\ \A k \in 1..Len(lit) : LowerChar(s[p + k - 1]) = lit[k]

\* The character class [a-zA-Z0-9_-] of the three expressions.
IsIdChar(c) ==
    \/ \E i \in 1..26 : UpperChars[i] = c \/ LowerChars[i] = c
    \/ c \in DigitChars
    \/ c \in {"_", "-"}

\* The length {11} of the captured video id.
VideoIdLen == 11

\* ([a-zA-Z0-9_-]{11}) at position p.
IdAt(s, p) ==
    /\ p >= 1
    /\ p + VideoIdLen - 1 <= Len(s)
    /\ \A k \in p..(p + VideoIdLen - 1) : IsIdChar(s[k])

MinOf(S) == CHOOSE x \in S : \A y \in S : x <= y

MaxOf(S) == CHOOSE x \in S : \A y \in S : y <= x

\* ------------------------------------------------------------------------
\* extractYouTubeVideoId and its three regular expressions
\*
\* text.match(re) of an expression without the g flag gives the leftmost
\* match. The optional prefixes (https?://, www.) capture nothing, and two
\* occurrences of the literal part cannot overlap, so the leftmost match is
\* the one of the leftmost occurrence of the literal part after which the
\* rest of the expression matches.
\* ------------------------------------------------------------------------

\* youtube\.com\/watch\?
WatchLit == <<"y","o","u","t","u","b","e",".","c","o","m","/","w","a","t","c","h","?">>

\* youtu\.be\/
ShortLit == <<"y","o","u","t","u",".","b","e","/">>

\* music\.youtube\.com\/watch\?
MusicLit == <<"m","u","s","i","c",".","y","o","u","t","u","b","e",".","c","o","m","/","w","a","t","c","h","?">>

VEq == <<"v","=">>

\* (?:.*&)?v=([a-zA-Z0-9_-]{11}) from position q: the optional group is
\* greedy, so the last "&v=<id>" of the text is taken when there is one, and
\* "v=<id>" at q itself otherwise.
QueryCapture(s, q) ==
    LET amp == {e \in q..Len(s) :
                   s[e] = "&" /\ LitAt(s, e + 1, VEq) /\ IdAt(s, e + 3)}
    IN  IF amp # {}
        THEN Some(SubSeq(s, MaxOf(amp) + 3, MaxOf(amp) + 2 + VideoIdLen))
        ELSE IF LitAt(s, q, VEq) /\ IdAt(s, q + 2)
        THEN Some(SubSeq(s, q + 2, q + 1 + VideoIdLen))
        ELSE None

\* text.match(re)?.[1] for an expression <lit>(?:.*&)?v=(<id>).
MatchQuery(s, lit) ==
    LET at == {p \in 1..Len(s) :
                  LitAt(s, p, lit) /\ QueryCapture(s, p + Len(lit)) # None}
    IN  IF at = {} THEN None ELSE QueryCapture(s, MinOf(at) + Len(lit))

\* text.match(YT_WATCH_RE)?.[1]
MatchWatch(s) == MatchQuery(s, WatchLit)

\* text.match(YT_MUSIC_RE)?.[1]
MatchMusic(s) == MatchQuery(s, MusicLit)

\* youtu\.be\/(<id>)(?:\?|$) at position p: after the id comes "?" or the
\* end of the text.
ShortAt(s, p) ==
    /\ LitAt(s, p, ShortLit)
    /\ IdAt(s, p + Len(ShortLit))
    /\ LET z == p + Len(ShortLit) + VideoIdLen
       IN  z = Len(s) + 1 \/ (z <= Len(s) /\ s[z] = "?")

\* text.match(YT_SHORT_RE)?.[1]
MatchShort(s) ==
    LET at == {p \in 1..Len(s) : ShortAt(s, p)}
    IN  IF at = {} THEN None
        ELSE Some(SubSeq(s, MinOf(at) + Len(ShortLit),
                            MinOf(at) + Len(ShortLit) + VideoIdLen - 1))

\* a || b || c || null
extractYouTubeVideoId(text) ==
    IF MatchWatch(text) # None THEN MatchWatch(text)
    ELSE IF MatchShort(text) # None THEN MatchShort(text)
    ELSE IF MatchMusic(text) # None THEN MatchMusic(text)
    ELSE None

\* ---- the texts extractYouTubeVideoId is called with ----

ExLead == { <<>>, <<"x"," ">>, <<"e","v","i","l">> }

ExScheme == { <<>>, <<"h","t","t","p","s",":","/","/">>, <<"H","T","T","P",":","/","/">> }

ExWww == { <<>>, <<"w","w","w",".">> }

ExHost == {
    <<>>,
    <<"y","o","u","t","u","b","e",".","c","o","m","/","w","a","t","c","h","?","v","=">>,
    <<"y","o","u","t","u","b","e",".","c","o","m","/","w","a","t","c","h","?","t","=","1","&","v","=">>,
    <<"Y","o","u","T","u","b","e",".","c","o","m","/","w","a","t","c","h","?","v","=">>,
    <<"y","o","u","t","u",".","b","e","/">>,
    <<"m","u","s","i","c",".","y","o","u","t","u","b","e",".","c","o","m","/","w","a","t","c","h","?","v","=">>,
    <<"y","o","u","t","u","b","e",".","c","o","m","/","e","m","b","e","d","/">> }

\* An id of 11 characters, one of 10 and one of 12.
ExId == {
    <<"d","Q","w","4","w","9","W","g","X","c","Q">>,
    <<"d","Q","w","4","w","9","W","g","X","c">>,
    <<"d","Q","w","4","w","9","W","g","X","c","Q","Z">> }

ExTrail == { <<>>, <<"?","t","=","1">>, <<"&","t","=","1">>, <<" ","p","l","s">> }

ExTexts ==
    {l \o sc \o w \o h \o i \o t :
        l \in ExLead, sc \in ExScheme, w \in ExWww, h \in ExHost,
        i \in ExId, t \in ExTrail}

ExInit ==
    /\ exText \in ExTexts
    /\ exResult = None
    /\ exPc = "ready"

ExIdle ==
    /\ exText = <<>>
    /\ exResult = None
    /\ exPc = "off"

\* One call of extractYouTubeVideoId(exText).
ExtractCall ==
    /\ exPc = "ready"
    /\ exResult' = extractYouTubeVideoId(exText)
    /\ exPc' = "done"
    /\ UNCHANGED exText

\* ------------------------------------------------------------------------
\* Google.searchBestMatch
\* ------------------------------------------------------------------------

\* The values a loosely typed field of a search result can hold: undefined,
\* a string, an object (name: its name property, empty when it has none)
\* or an array of such values.
JUndef == [kind |-> "undef", name |-> <<>>, items |-> <<>>]

JStr(t) == [kind |-> "str", name |-> t, items |-> <<>>]

JObj(n) == [kind |-> "obj", name |-> n, items |-> <<>>]

JArr(xs) == [kind |-> "arr", name |-> <<>>, items |-> xs]

\* Truthiness: undefined and the empty string are falsy.
Truthy(v) == v.kind \in {"obj", "arr"} \/ (v.kind = "str" /\ v.name # <<>>)

\* String(v) of an object without a toString of its own.
ObjectObject == <<"[","o","b","j","e","c","t"," ","O","b","j","e","c","t","]">>

UnknownArtist == <<"U","n","k","n","o","w","n"," ","A","r","t","i","s","t">>

UnknownSong == <<"U","n","k","n","o","w","n"," ","S","o","n","g">>

SongType == <<"s","o","n","g">>

\* Array.prototype.join(sep) of an array of strings.
RECURSIVE Join(_, _)
Join(xs, sep) ==
    IF xs = <<>> THEN <<>>
    ELSE IF Len(xs) = 1 THEN xs[1]
    ELSE xs[1] \o sep \o Join(Tail(xs), sep)

\* first.replace(/\s+/g, '') of compareTwoStrings.
StripSpaces(s) == SelectSeq(s, LAMBDA c : c # " ")

\* The bigrams of a string, as compareTwoStrings takes them.
Bigrams(s) == [i \in 1..(Len(s) - 1) |-> <<s[i], s[i + 1]>>]

CountIn(bs, b) == Cardinality({i \in 1..Len(bs) : bs[i] = b})

RECURSIVE SumOver(_, _)
SumOver(S, f) ==
    IF S = {} THEN 0
    ELSE LET x == CHOOSE y \in S : TRUE
         IN  f[x] + SumOver(S \ {x}, f)

\* intersectionSize of compareTwoStrings: each bigram of the second string
\* uses up one occurrence of it in the first, so the loop counts, for every
\* bigram, the smaller of its two numbers of occurrences.
IntersectionSize(b1, b2) ==
    LET bg == {b1[i] : i \in 1..Len(b1)}
        f  == [b \in bg |->
                 IF CountIn(b1, b) <= CountIn(b2, b)
                 THEN CountIn(b1, b) ELSE CountIn(b2, b)]
    IN  SumOver(bg, f)

\* compareTwoStrings(first, second) of string-similarity (Dice's coefficient
\* over character bigrams), as the fraction <<numerator, denominator>>.
compareTwoStrings(first, second) ==
    LET a == StripSpaces(first)
        b == StripSpaces(second)
    IN  IF a = b THEN <<1, 1>>
        ELSE IF Len(a) < 2 \/ Len(b) < 2 THEN <<0, 1>>
        ELSE <<2 * IntersectionSize(Bigrams(a), Bigrams(b)),
               Len(a) + Len(b) - 2>>

\* x.score > y.score for two such fractions.
ScoreGreater(x, y) == x[1] * y[2] > y[1] * x[2]

\* A filter that also lets the "video" results through.
IsSong_VideoToo(r) ==
    ToLowerCase(IF Truthy(r.type) THEN r.type.name ELSE <<>>)
        \in {SongType, <<"v","i","d","e","o">>}

\* (r.type || "").toLowerCase() === "song"
IsSong(r) == ToLowerCase(IF Truthy(r.type) THEN r.type.name ELSE <<>>) = SongType

\* results.filter(...), as the indices kept, in catalog order.
SongIndices(results) == {i \in 1..Len(results) : IsSong(results[i])}

\* (s.artists || []).map(...) throws a TypeError when artists is truthy and
\* has no map method (a string or an object).
ArtistNamesThrows(s) == Truthy(s.artists) /\ s.artists.kind # "arr"

\* (a) => a.name || a, then joined: an object without a name is joined as
\* "[object Object]".
NameOrSelf(a) ==
    IF a.kind = "obj" /\ a.name # <<>> THEN a.name
    ELSE IF a.kind = "obj" THEN ObjectObject
    ELSE a.name

ArtistNames(s) ==
    IF Truthy(s.artists)
    THEN Join([i \in 1..Len(s.artists.items) |-> NameOrSelf(s.artists.items[i])],
              <<" ">>)
    ELSE <<>>

\* s.title ?? s.name ?? "": only undefined falls through.
TitleForHay(s) ==
    IF s.title.kind # "undef" THEN s.title.name
    ELSE IF s.name.kind # "undef" THEN s.name.name
    ELSE <<>>

Hay(s) == ToLowerCase(TitleForHay(s) \o <<" ">> \o ArtistNames(s))

Score(query, s) == compareTwoStrings(ToLowerCase(query), Hay(s))

\* ranked[0] after the stable sort by descending score: the first song, in
\* catalog order, whose score no other song exceeds.
TopIndex(query, results) ==
    LET songs == SongIndices(results)
        best  == {i \in songs :
                    \A j \in songs :
                        ~ScoreGreater(Score(query, results[j]),
                                      Score(query, results[i]))}
    IN  MinOf(best)

\* top.title || top.name || "Unknown Song"
PickTitle(top) ==
    IF Truthy(top.title) THEN top.title.name
    ELSE IF Truthy(top.name) THEN top.name.name
    ELSE UnknownSong

\* One element of top.artists mapped: a string as it is, else a.name ||
\* 'Unknown Artist'.
PickArtistEntry(a) ==
    IF a.kind = "str" THEN a.name
    ELSE IF a.name # <<>> THEN a.name
    ELSE UnknownArtist

\* The artists of the pick without the placeholder for an empty list.
PickArtists_NoPlaceholder(top) ==
    IF Truthy(top.artists) /\ top.artists.kind = "arr"
    THEN SelectSeq([i \in 1..Len(top.artists.items) |->
                       PickArtistEntry(top.artists.items[i])],
                   LAMBDA n : n # <<>>)
    ELSE IF Truthy(top.artist) /\ top.artist.kind = "obj"
            /\ top.artist.name # <<>>
    THEN <<top.artist.name>>
    ELSE IF Truthy(top.artist) /\ top.artist.kind = "str"
    THEN <<top.artist.name>>
    ELSE <<>>

\* The artists of the pick: the three cases, .filter(Boolean), and the
\* placeholder for an empty list.
PickArtists(top) ==
    LET found ==
          IF Truthy(top.artists) /\ top.artists.kind = "arr"
          THEN SelectSeq([i \in 1..Len(top.artists.items) |->
                             PickArtistEntry(top.artists.items[i])],
                         LAMBDA n : n # <<>>)
          ELSE IF Truthy(top.artist) /\ top.artist.kind = "obj"
                  /\ top.artist.name # <<>>
          THEN <<top.artist.name>>
          ELSE IF Truthy(top.artist) /\ top.artist.kind = "str"
          THEN <<top.artist.name>>
          ELSE <<>>
    IN  IF Len(found) = 0 THEN <<UnknownArtist>> ELSE found

\* Whether searchBestMatch throws once the search has resolved: the map
\* over the songs evaluates the artist names of every song.
SearchThrows(results) ==
    \E i \in SongIndices(results) : ArtistNamesThrows(results[i])

\* The value searchBestMatch returns once the search has resolved (and
\* nothing throws): null without songs, else the pick built from the top.
searchBestMatch(query, results) ==
    IF SongIndices(results) = {} THEN None
    ELSE LET top == results[TopIndex(query, results)]
         IN  Some([title   |-> PickTitle(top),
                   artists |-> PickArtists(top),
                   videoId |-> top.videoId])

\* ---- the queries and search results searchBestMatch is called with ----

TxHello == <<"H","e","l","l","o">>

TxAdele == <<"A","d","e","l","e">>

TxHelloAdele == <<"h","e","l","l","o"," ","a","d","e","l","e">>

TxHelp == <<"H","e","l","p">>

SbQueries == { TxHelloAdele, <<"H","E","L","P">> }

\* A search result without its videoId.
Cand(type, title, name, artists, artist) ==
    [type |-> type, title |-> title, name |-> name,
     artists |-> artists, artist |-> artist, videoId |-> <<>>]

SbPool == {
    Cand(JStr(SongType), JStr(TxHello), JUndef, JArr(<<JObj(TxAdele)>>), JUndef),
    Cand(JStr(<<"v","i","d","e","o">>), JStr(TxHelloAdele), JUndef, JUndef, JUndef),
    Cand(JStr(<<"S","O","N","G">>), JStr(TxHelp), JUndef, JArr(<<JStr(TxAdele)>>), JUndef),
    Cand(JUndef, JStr(TxHelloAdele), JUndef, JUndef, JUndef),
    Cand(JStr(SongType), JUndef, JStr(TxHello), JUndef, JObj(TxAdele)),
    Cand(JStr(SongType), JStr(TxHelp), JUndef, JUndef, JStr(TxAdele)),
    Cand(JStr(SongType), JStr(<<>>), JUndef, JArr(<<JObj(<<>>)>>), JUndef),
    Cand(JStr(<<"S","o","n","g">>), JStr(TxHello), JUndef, JStr(TxAdele), JUndef),
    Cand(JStr(SongType), JStr(TxHello), JUndef, JUndef, JUndef),
    Cand(JStr(SongType), JStr(TxHelp), JUndef,
         JArr(<<JObj(TxAdele), JStr(<<"Z","e","d">>)>>), JUndef),
    Cand(JStr(SongType), JStr(TxHelp), JUndef, JArr(<<JObj(<<>>), JObj(<<>>)>>), JUndef) }

\* The search returns at most this many results.
MaxResults == 3

DigitSeq == <<"1","2","3","4","5","6","7","8","9">>

\* The videoId of the i-th result: every result has its own.
VideoIdOf(i) == <<"v", DigitSeq[i]>>

SbResultLists ==
    UNION {{[i \in 1..n |-> [c[i] EXCEPT !.videoId = VideoIdOf(i)]] :
               c \in [1..n -> SbPool]} : n \in 0..MaxResults}

SbInit ==
    /\ sbQuery \in SbQueries
    /\ sbResults \in SbResultLists
    /\ sbOut = None
    /\ sbPc = "ready"

SbIdle ==
    /\ sbQuery = <<>>
    /\ sbResults = <<>>
    /\ sbOut = None
    /\ sbPc = "off"

\* One call of searchBestMatch(sbQuery) that returns.
SearchReturns ==
    /\ sbPc = "ready"
    /\ ~SearchThrows(sbResults)
    /\ sbOut' = searchBestMatch(sbQuery, sbResults)
    /\ sbPc' = "done"
    /\ UNCHANGED <<sbQuery, sbResults>>

\* One call of searchBestMatch(sbQuery) that throws: the search rejected,
\* or the ranking met artists that are no array. The catch rethrows.
SearchFails ==
    /\ sbPc = "ready"
    /\ sbPc' = "thrown"
    /\ UNCHANGED <<sbQuery, sbResults, sbOut>>

\* ------------------------------------------------------------------------
\* The user table, YouTube, and the processes
\* ------------------------------------------------------------------------

\* The users (prisma User rows), named by their id; the Twitch channel of a
\* user carries the same name.
Tenants == {"t1", "t2"}

\* A channel the bot hears that belongs to no user row.
Strangers == {"nobody"}

\* The message handlers and client calls that can be in flight at once.
NumProcs == 2

Procs == 1..NumProcs

\* YouTube holds at most this many playlists, and this many playlist items.
MaxPlaylists == 3

MaxItems == 3

\* maxResults of playlists.list (50 in the code), scaled to the model.
PageSize == 2

PlaylistIds == 1..MaxPlaylists

\* findFirst / findUnique found no row.
NoUser ==
    [found |-> FALSE, id |-> "none", youtubePlaylistId |-> 0,
     playlistName |-> <<>>]

\* What prisma.user.findFirst / findUnique resolves to for a channel name
\* or a user id: the row as it is in the table at that moment.
UserRow(t) ==
    IF t \in Tenants
    THEN [found |-> TRUE, id |-> t,
          youtubePlaylistId |-> db[t].youtubePlaylistId,
          playlistName |-> db[t].playlistName]
    ELSE NoUser

\* One call a process made, with how it ended.
Event(ev, n, vid, ok) == [ev |-> ev, n |-> n, vid |-> vid, ok |-> ok]

Reply(msg, arg) == [msg |-> msg, arg |-> arg]

NoReply == Reply("none", <<>>)

\* A process that is not running.
IdleProc ==
    [pc |-> "idle", kind |-> "none", tenant |-> "none", text |-> <<>>,
     isMod |-> FALSE, isBroadcaster |-> FALSE, cmd |-> "none",
     inTry |-> FALSE, query |-> <<>>, dbUser |-> NoUser, google |-> 0,
     videoId |-> None, best |-> None, addVideo |-> <<>>, playlistId |-> 0,
     op |-> "none", ret |-> "none", name |-> <<>>, pageToken |-> 0,
     first |-> 0, result |-> None, err |-> "none", sayText |-> NoReply,
     log |-> <<>>, replies |-> <<>>,
     solo |-> FALSE, prev |-> None, before |-> <<>>, disturbed |-> FALSE,
     ids |-> <<>>]

Logged(pr, e) == [pr EXCEPT !.log = Append(@, e)]

\* ---- the replies the handler sends ----

ShortUrlPrefix == <<"h","t","t","p","s",":","/","/","y","o","u","t","u",".","b","e","/">>

\* `✓ Added to queue: https://youtu.be/${videoId}`
AddedToQueueReply(videoId) == Reply("AddedToQueue", ShortUrlPrefix \o videoId)

\* `✓ Added: ${best.title} — ${best.artists.join(', ')}`
AddedReply(best) ==
    Reply("Added", best.title \o <<" ","-"," ">> \o Join(best.artists, <<","," ">>))

\* `No results found for "${query}"`
NoResultsReply(query) == Reply("NoResults", query)

\* `♪ Now Playing: ${nowPlaying.title} by ${nowPlaying.channel}`
NowPlayingReply(np) ==
    Reply("NowPlaying", np.title \o <<" ","b","y"," ">> \o np.channel)

\* The reply of the catch block of each command.
CatchReply(cmd) ==
    IF cmd = "sr" THEN Reply("SrWentWrong", <<>>)
    ELSE IF cmd = "np" THEN Reply("NpCouldNotFetch", <<>>)
    ELSE Reply("SkipCouldNot", <<>>)

\* await chatClient.say(channel, reply) is issued.
Say(pr, reply) == [pr EXCEPT !.pc = "say", !.sayText = reply]

\* A catch block that puts the error into its reply.
Thrown_SurfaceError(pr, err) ==
    IF pr.kind = "call" THEN [pr EXCEPT !.pc = "thrown", !.err = err]
    ELSE IF pr.inTry
    THEN [Say(pr, Reply(err, <<>>)) EXCEPT !.inTry = FALSE, !.err = err]
    ELSE [pr EXCEPT !.pc = "crashed", !.err = err]

\* An error is thrown in a process: a client call ends with it; in a
\* handler the catch block of the command sends its reply, and outside a
\* try block the error leaves the handler.
Thrown(pr, err) ==
    IF pr.kind = "call" THEN [pr EXCEPT !.pc = "thrown", !.err = err]
    ELSE IF pr.inTry
    THEN [Say(pr, CatchReply(pr.cmd)) EXCEPT !.inTry = FALSE, !.err = err]
    ELSE [pr EXCEPT !.pc = "crashed", !.err = err]

\* A method of Google is called: every one of them starts with
\* await this.ensureGoogleAccess().
CallOp(pr, op, ret) == [pr EXCEPT !.pc = "access", !.op = op, !.ret = ret]

\* The !sr handler confirming without the call of addToPlaylist.
StartAdd_ConfirmOnly(pr) ==
    IF pr.videoId # None
    THEN Say(pr, AddedToQueueReply(pr.videoId[1]))
    ELSE Say(pr, AddedReply(pr.best[1]))

\* await google.addToPlaylist(playlistId, videoId) of the !sr handler.
StartAdd(pr) == CallOp(pr, "add", "srAdd")

\* The !sr handler once playlistId is known: the id is written to the row
\* when the row read at the start of the handler had none.
AfterPlaylist(pr) ==
    IF pr.dbUser.youtubePlaylistId = 0
    THEN [pr EXCEPT !.pc = "update"]
    ELSE StartAdd(pr)

\* dbUser.youtubePlaylistId || (await google.ensurePlaylist(dbUser.playlistName))
ResolvePlaylist(pr) ==
    IF pr.dbUser.youtubePlaylistId # 0
    THEN AfterPlaylist([pr EXCEPT !.playlistId = pr.dbUser.youtubePlaylistId])
    ELSE [CallOp(pr, "ensure", "srPlaylist") EXCEPT
              !.name = pr.dbUser.playlistName, !.pageToken = 0]

\* The !sr handler going on without a Google instance.
AfterSession_NoSessionCheck(pr) ==
    IF pr.cmd = "sr"
    THEN LET videoId == extractYouTubeVideoId(pr.query)
         IN  IF videoId # None
             THEN ResolvePlaylist([pr EXCEPT !.videoId = videoId,
                                             !.addVideo = videoId[1]])
             ELSE [pr EXCEPT !.pc = "search"]
    ELSE IF pr.google = 0 \/ pr.dbUser.youtubePlaylistId = 0
         THEN Say(pr, Reply("NoPlaylist", <<>>))
         ELSE [CallOp(pr, pr.cmd, pr.cmd) EXCEPT
                   !.playlistId = pr.dbUser.youtubePlaylistId]

\* The handler searching whatever the query is, a link included.
AfterSession_AlwaysSearch(pr) ==
    IF pr.cmd = "sr"
    THEN IF pr.google = 0
         THEN Say(pr, Reply("NotConnected", <<>>))
         ELSE [pr EXCEPT !.pc = "search"]
    ELSE IF pr.google = 0 \/ pr.dbUser.youtubePlaylistId = 0
         THEN Say(pr, Reply("NoPlaylist", <<>>))
         ELSE [CallOp(pr, pr.cmd, pr.cmd) EXCEPT
                   !.playlistId = pr.dbUser.youtubePlaylistId]

\* The handler once getGoogleForUser has resolved to pr.google (0: null).
AfterSession(pr) ==
    IF pr.cmd = "sr"
    THEN IF pr.google = 0
         THEN Say(pr, Reply("NotConnected", <<>>))
         ELSE LET videoId == extractYouTubeVideoId(pr.query)
              IN  IF videoId # None
                  THEN ResolvePlaylist([pr EXCEPT !.videoId = videoId,
                                                  !.addVideo = videoId[1]])
                  ELSE [pr EXCEPT !.pc = "search"]
    ELSE IF pr.google = 0 \/ pr.dbUser.youtubePlaylistId = 0
         THEN Say(pr, Reply("NoPlaylist", <<>>))
         ELSE [CallOp(pr, pr.cmd, pr.cmd) EXCEPT
                   !.playlistId = pr.dbUser.youtubePlaylistId]

\* getGoogleForUser(dbUser.id): the cached instance, or the row is read.
GetGoogleForUser(pr) ==
    IF googleInstances[pr.tenant] # 0
    THEN AfterSession([pr EXCEPT !.google = googleInstances[pr.tenant]])
    ELSE [pr EXCEPT !.pc = "findUnique"]

CmdSr == <<"!","s","r"," ">>

CmdNp == <<"!","n","p">>

CmdSkip == <<"!","s","k","i","p">>

\* The handler answering the lines that are no command as well.
Dispatch_AnswersEverything(pr) ==
    LET lower == ToLowerCase(pr.text)
    IN  IF StartsWith(lower, CmdSr)
        THEN LET query == Trim(Slice(pr.text, 4))
             IN  IF query = <<>>
                 THEN Say([pr EXCEPT !.cmd = "sr"], Reply("Prompt", <<>>))
                 ELSE GetGoogleForUser([pr EXCEPT !.cmd = "sr", !.inTry = TRUE,
                                                  !.query = query])
        ELSE IF lower = CmdNp
        THEN GetGoogleForUser([pr EXCEPT !.cmd = "np", !.inTry = TRUE])
        ELSE IF lower = CmdSkip
        THEN IF ~pr.isMod /\ ~pr.isBroadcaster
             THEN [pr EXCEPT !.cmd = "skip", !.pc = "done"]
             ELSE GetGoogleForUser([pr EXCEPT !.cmd = "skip", !.inTry = TRUE])
        ELSE Say(pr, Reply("UnknownCommand", <<>>))

\* The handler letting every chatter skip.
Dispatch_NoPrivilegeCheck(pr) ==
    LET lower == ToLowerCase(pr.text)
    IN  IF StartsWith(lower, CmdSr)
        THEN LET query == Trim(Slice(pr.text, 4))
             IN  IF query = <<>>
                 THEN Say([pr EXCEPT !.cmd = "sr"], Reply("Prompt", <<>>))
                 ELSE GetGoogleForUser([pr EXCEPT !.cmd = "sr", !.inTry = TRUE,
                                                  !.query = query])
        ELSE IF lower = CmdNp
        THEN GetGoogleForUser([pr EXCEPT !.cmd = "np", !.inTry = TRUE])
        ELSE IF lower = CmdSkip
        THEN GetGoogleForUser([pr EXCEPT !.cmd = "skip", !.inTry = TRUE])
        ELSE [pr EXCEPT !.pc = "done"]

\* The handler once dbUser is known to be a row: the three if blocks.
Dispatch(pr) ==
    LET lower == ToLowerCase(pr.text)
    IN  IF StartsWith(lower, CmdSr)
        THEN LET query == Trim(Slice(pr.text, 4))
             IN  IF query = <<>>
                 THEN Say([pr EXCEPT !.cmd = "sr"], Reply("Prompt", <<>>))
                 ELSE GetGoogleForUser([pr EXCEPT !.cmd = "sr", !.inTry = TRUE,
                                                  !.query = query])
        ELSE IF lower = CmdNp
        THEN GetGoogleForUser([pr EXCEPT !.cmd = "np", !.inTry = TRUE])
        ELSE IF lower = CmdSkip
        THEN IF ~pr.isMod /\ ~pr.isBroadcaster
             THEN [pr EXCEPT !.cmd = "skip", !.pc = "done"]
             ELSE GetGoogleForUser([pr EXCEPT !.cmd = "skip", !.inTry = TRUE])
        ELSE [pr EXCEPT !.pc = "done"]

\* The !skip handler answering '⏭ Skipped!' whatever skipFirst returned.
Returned_AlwaysSkipped(pr, value) ==
    IF pr.ret = "direct"
    THEN [pr EXCEPT !.pc = "returned", !.result = Some(value)]
    ELSE IF pr.ret = "srPlaylist"
    THEN AfterPlaylist([pr EXCEPT !.playlistId = value])
    ELSE IF pr.ret = "srAdd"
    THEN IF pr.videoId # None
         THEN Say(pr, AddedToQueueReply(pr.videoId[1]))
         ELSE Say(pr, AddedReply(pr.best[1]))
    ELSE IF pr.ret = "np"
    THEN IF value = None
         THEN Say(pr, Reply("NothingPlaying", <<>>))
         ELSE Say(pr, NowPlayingReply(value[1]))
    ELSE Say(pr, Reply("Skipped", <<>>))

\* A method of Google returns value to its caller.
Returned(pr, value) ==
    IF pr.ret = "direct"
    THEN [pr EXCEPT !.pc = "returned", !.result = Some(value)]
    ELSE IF pr.ret = "srPlaylist"
    THEN AfterPlaylist([pr EXCEPT !.playlistId = value])
    ELSE IF pr.ret = "srAdd"
    THEN IF pr.videoId # None
         THEN Say(pr, AddedToQueueReply(pr.videoId[1]))
         ELSE Say(pr, AddedReply(pr.best[1]))
    ELSE IF pr.ret = "np"
    THEN IF value = None
         THEN Say(pr, Reply("NothingPlaying", <<>>))
         ELSE Say(pr, NowPlayingReply(value[1]))
    ELSE IF value
         THEN Say(pr, Reply("Skipped", <<>>))
         ELSE Say(pr, Reply("QueueEmpty", <<>>))

\* ---- YouTube ----

\* The comparison with the title of the playlist left as YouTube gives it.
PlaylistMatches_RawTitle(title, name) == title = ToLowerCase(Trim(name))

\* pl.snippet?.title?.trim().toLowerCase() === name.trim().toLowerCase()
PlaylistMatches(title, name) ==
    ToLowerCase(Trim(title)) = ToLowerCase(Trim(name))

\* Whether playlist id pl exists in the account of user t.
HasPlaylist(t, pl) == \E i \in 1..Len(playlists[t]) : playlists[t][i].id = pl

\* The playlist that holds item id it, or 0.
PlaylistOfItem(it) ==
    IF \E pl \in PlaylistIds : \E i \in 1..Len(items[pl]) : items[pl][i].id = it
    THEN CHOOSE pl \in PlaylistIds :
             \E i \in 1..Len(items[pl]) : items[pl][i].id = it
    ELSE 0

Heads(its) == {its[pl][1].id : pl \in {q \in PlaylistIds : its[q] # <<>>}}

\* The items change to its; the history of first items follows.
SetItems(its) ==
    /\ items' = its
    /\ everHead' = everHead \cup Heads(its)

\* The processes inside skipFirst(pl) other than p see the playlist change
\* under them.
Disturb(ps, p, pl) ==
    [q \in Procs |->
        IF q # p /\ ps[q].op = "skip" /\ ps[q].playlistId = pl
           /\ ps[q].pc \in {"access", "skipList", "skipDelete"}
        THEN [ps[q] EXCEPT !.disturbed = TRUE]
        ELSE ps[q]]

\* Whether process q is inside ensurePlaylist.
InEnsure(q) ==
    procs[q].op = "ensure" /\ procs[q].pc \in {"access", "ensureList", "ensureInsert"}

\* The snippet YouTube gives an item the bot inserts.
ItemOf(id, videoId) ==
    [id |-> id, videoId |-> videoId, title |-> <<"T">>, owner |-> <<"C">>]

\* ---- the steps of the Google methods: one action per resolved await ----

\* The call a method makes once ensureGoogleAccess has resolved.
FirstCall(op) ==
    IF op = "ensure" THEN "ensureList"
    ELSE IF op = "add" THEN "addInsert"
    ELSE IF op = "skip" THEN "skipList"
    ELSE IF op = "clear" THEN "clearList"
    ELSE "npList"

\* The API call a process waits for at pc.
CallName(pc) ==
    IF pc = "ensureList" THEN "playlists.list"
    ELSE IF pc = "ensureInsert" THEN "playlists.insert"
    ELSE IF pc = "addInsert" THEN "playlistItems.insert"
    ELSE IF pc \in {"skipDelete", "clearDelete"} THEN "playlistItems.delete"
    ELSE "playlistItems.list"

\* lastEnsure after a client call of ensurePlaylist has ended with res.
LastEnsureAfter(pr, res) ==
    IF pr.kind = "call" /\ pr.op = "ensure" THEN res ELSE lastEnsure

\* ensureGoogleAccess: oauth2.getAccessToken() resolves.
AccessOk(p) ==
    LET pr == procs[p]
    IN  /\ pr.pc = "access"
        /\ procs' = [procs EXCEPT ![p] =
               [Logged(pr, Event("getAccessToken", 0, <<>>, TRUE)) EXCEPT
                    !.pc = FirstCall(pr.op)]]
        /\ UNCHANGED <<dbVars, ytVars, lastEnsure>>

\* ensureGoogleAccess: getAccessToken rejects, 'Google authentication
\* failed' is thrown and the method rethrows it.
AccessFails(p) ==
    LET pr == procs[p]
    IN  /\ pr.pc = "access"
        /\ procs' = [procs EXCEPT ![p] =
               Thrown(Logged(pr, Event("getAccessToken", 0, <<>>, FALSE)), "auth")]
        /\ lastEnsure' = LastEnsureAfter(pr, None)
        /\ UNCHANGED <<dbVars, ytVars>>

\* ensurePlaylist: one page of youtube.playlists.list resolves.
EnsureListOk(p) ==
    LET pr   == procs[p]
        all  == playlists[pr.tenant]
        last == IF pr.pageToken + PageSize < Len(all)
                THEN pr.pageToken + PageSize ELSE Len(all)
        hits == {i \in (pr.pageToken + 1)..last :
                    PlaylistMatches(all[i].title, pr.name)}
        lg   == Logged(pr, Event("playlists.list", pr.pageToken, <<>>, TRUE))
    IN  /\ pr.pc = "ensureList"
        /\ IF hits # {}
           THEN /\ procs' = [procs EXCEPT ![p] = Returned(lg, all[MinOf(hits)].id)]
                /\ lastEnsure' = LastEnsureAfter(pr,
                      IF pr.solo
                      THEN Some([name |-> pr.name, id |-> all[MinOf(hits)].id,
                                 created |-> FALSE])
                      ELSE None)
           ELSE IF last < Len(all)
           THEN /\ procs' = [procs EXCEPT ![p] = [lg EXCEPT !.pageToken = last]]
                /\ UNCHANGED lastEnsure
           ELSE /\ procs' = [procs EXCEPT ![p] = [lg EXCEPT !.pc = "ensureInsert"]]
                /\ UNCHANGED lastEnsure
        /\ UNCHANGED <<dbVars, ytVars>>

\* ensurePlaylist: youtube.playlists.insert resolves with the new playlist.
\* Where the new playlist stands in later listings is up to YouTube.
EnsureInsertOk(p) ==
    LET pr  == procs[p]
        new == [id |-> nextPlaylistId, title |-> pr.name]
        lg  == Logged(pr, Event("playlists.insert", nextPlaylistId, <<>>, TRUE))
    IN  /\ pr.pc = "ensureInsert"
        /\ nextPlaylistId <= MaxPlaylists
        /\ \E front \in BOOLEAN :
              playlists' = [playlists EXCEPT ![pr.tenant] =
                               IF front THEN <<new>> \o @ ELSE Append(@, new)]
        /\ nextPlaylistId' = nextPlaylistId + 1
        /\ procs' = [procs EXCEPT ![p] = Returned(lg, nextPlaylistId)]
        /\ lastEnsure' = LastEnsureAfter(pr,
              IF pr.solo
              THEN Some([name |-> pr.name, id |-> nextPlaylistId,
                         created |-> TRUE])
              ELSE None)
        /\ UNCHANGED <<dbVars, items, nextItemId, everHead>>

\* addToPlaylist: youtube.playlistItems.insert resolves; the item is added
\* at the end of the playlist.
AddInsertOk(p) ==
    LET pr == procs[p]
        lg == Logged(pr, Event("playlistItems.insert", pr.playlistId,
                               pr.addVideo, TRUE))
    IN  /\ pr.pc = "addInsert"
        /\ pr.playlistId \in PlaylistIds
        /\ HasPlaylist(pr.tenant, pr.playlistId)
        /\ nextItemId <= MaxItems
        /\ SetItems([items EXCEPT ![pr.playlistId] =
                        Append(@, ItemOf(nextItemId, pr.addVideo))])
        /\ nextItemId' = nextItemId + 1
        /\ procs' = Disturb([procs EXCEPT ![p] = Returned(lg, TRUE)],
                            p, pr.playlistId)
        /\ UNCHANGED <<dbVars, playlists, nextPlaylistId, lastEnsure>>

\* skipFirst taking the last item of the playlist for the first.
SkipListOk_LastItem(p) ==
    LET pr == procs[p]
        lg == Logged(pr, Event("playlistItems.list", pr.playlistId, <<>>, TRUE))
    IN  /\ pr.pc = "skipList"
        /\ pr.playlistId \in PlaylistIds
        /\ HasPlaylist(pr.tenant, pr.playlistId)
        /\ procs' = [procs EXCEPT ![p] =
               IF items[pr.playlistId] = <<>>
               THEN Returned(lg, FALSE)
               ELSE [lg EXCEPT !.pc = "skipDelete",
                               !.first = items[pr.playlistId]
                                             [Len(items[pr.playlistId])].id]]
        /\ UNCHANGED <<dbVars, ytVars, lastEnsure>>

\* skipFirst: youtube.playlistItems.list (maxResults: 1) resolves; without
\* a first item the method returns false.
SkipListOk(p) ==
    LET pr == procs[p]
        lg == Logged(pr, Event("playlistItems.list", pr.playlistId, <<>>, TRUE))
    IN  /\ pr.pc = "skipList"
        /\ pr.playlistId \in PlaylistIds
        /\ HasPlaylist(pr.tenant, pr.playlistId)
        /\ procs' = [procs EXCEPT ![p] =
               IF items[pr.playlistId] = <<>>
               THEN Returned(lg, FALSE)
               ELSE [lg EXCEPT !.pc = "skipDelete",
                               !.first = items[pr.playlistId][1].id]]
        /\ UNCHANGED <<dbVars, ytVars, lastEnsure>>

\* skipFirst deleting whatever is first in the playlist when the delete
\* call arrives, not the item it fetched.
SkipDeleteOk_ByPosition(p) ==
    LET pr == procs[p]
        pl == pr.playlistId
        lg == Logged(pr, Event("playlistItems.delete", pr.first, <<>>, TRUE))
    IN  /\ pr.pc = "skipDelete"
        /\ HasPlaylist(pr.tenant, pl)
        /\ items[pl] # <<>>
        /\ SetItems([items EXCEPT ![pl] = Tail(@)])
        /\ procs' = Disturb([procs EXCEPT ![p] = Returned(lg, TRUE)], p, pl)
        /\ UNCHANGED <<dbVars, playlists, nextPlaylistId, nextItemId, lastEnsure>>

\* skipFirst: youtube.playlistItems.delete({ id: first.id }) resolves; the
\* method returns true.
SkipDeleteOk(p) ==
    LET pr == procs[p]
        pl == PlaylistOfItem(pr.first)
        lg == Logged(pr, Event("playlistItems.delete", pr.first, <<>>, TRUE))
    IN  /\ pr.pc = "skipDelete"
        /\ pl # 0
        /\ HasPlaylist(pr.tenant, pl)
        /\ SetItems([items EXCEPT ![pl] =
                        SelectSeq(@, LAMBDA it : it.id # pr.first)])
        /\ procs' = Disturb([procs EXCEPT ![p] = Returned(lg, TRUE)], p, pl)
        /\ UNCHANGED <<dbVars, playlists, nextPlaylistId, nextItemId, lastEnsure>>

Unknown == <<"U","n","k","n","o","w","n">>

\* nowPlaying taking the item it reads out of the playlist.
NpListOk_Consumes(p) ==
    LET pr == procs[p]
        lg == Logged(pr, Event("playlistItems.list", pr.playlistId, <<>>, TRUE))
        it == items[pr.playlistId][1]
    IN  /\ pr.pc = "npList"
        /\ pr.playlistId \in PlaylistIds
        /\ HasPlaylist(pr.tenant, pr.playlistId)
        /\ procs' = [procs EXCEPT ![p] =
               IF items[pr.playlistId] = <<>>
               THEN Returned(lg, None)
               ELSE Returned(lg, Some(
                        [title   |-> IF it.title = <<>> THEN Unknown ELSE it.title,
                         channel |-> IF it.owner = <<>> THEN Unknown ELSE it.owner]))]
        /\ items' = [items EXCEPT ![pr.playlistId] =
                        IF @ = <<>> THEN @ ELSE Tail(@)]
        /\ UNCHANGED <<dbVars, playlists, nextPlaylistId, nextItemId,
                       everHead, lastEnsure>>

\* nowPlaying: youtube.playlistItems.list (maxResults: 1) resolves.
NpListOk(p) ==
    LET pr == procs[p]
        lg == Logged(pr, Event("playlistItems.list", pr.playlistId, <<>>, TRUE))
        it == items[pr.playlistId][1]
    IN  /\ pr.pc = "npList"
        /\ pr.playlistId \in PlaylistIds
        /\ HasPlaylist(pr.tenant, pr.playlistId)
        /\ procs' = [procs EXCEPT ![p] =
               IF items[pr.playlistId] = <<>>
               THEN Returned(lg, None)
               ELSE Returned(lg, Some(
                        [title   |-> IF it.title = <<>> THEN Unknown ELSE it.title,
                         channel |-> IF it.owner = <<>> THEN Unknown ELSE it.owner]))]
        /\ UNCHANGED <<dbVars, ytVars, lastEnsure>>

\* clearPlaylist lists with maxResults: 50.
ClearPageSize == 50

\* clearPlaylist once the ids of a page are deleted: the next page, or the
\* end of the method when the page had no nextPageToken.
ClearNext(pr) ==
    IF pr.pageToken = 0
    THEN Returned(pr, TRUE)
    ELSE [pr EXCEPT !.pc = "clearList"]

\* clearPlaylist: one page of youtube.playlistItems.list resolves with the
\* ids of its items; the for loop starts deleting them.
ClearListOk(p) ==
    LET pr   == procs[p]
        all  == items[pr.playlistId]
        last == IF pr.pageToken + ClearPageSize < Len(all)
                THEN pr.pageToken + ClearPageSize ELSE Len(all)
        ids  == [n \in 1..(last - pr.pageToken) |-> all[pr.pageToken + n].id]
        lg   == [Logged(pr, Event("playlistItems.list", pr.playlistId, <<>>, TRUE))
                    EXCEPT !.ids = ids,
                           !.pageToken = IF last < Len(all) THEN last ELSE 0]
    IN  /\ pr.pc = "clearList"
        /\ pr.playlistId \in PlaylistIds
        /\ HasPlaylist(pr.tenant, pr.playlistId)
        /\ procs' = [procs EXCEPT ![p] =
               IF ids = <<>> THEN ClearNext(lg)
               ELSE [lg EXCEPT !.pc = "clearDelete"]]
        /\ UNCHANGED <<dbVars, ytVars, lastEnsure>>

\* clearPlaylist: youtube.playlistItems.delete({ id }) resolves for the
\* next id of the page.
ClearDeleteOk(p) ==
    LET pr == procs[p]
        id == Head(pr.ids)
        pl == PlaylistOfItem(id)
        lg == [Logged(pr, Event("playlistItems.delete", id, <<>>, TRUE))
                  EXCEPT !.ids = Tail(pr.ids)]
    IN  /\ pr.pc = "clearDelete"
        /\ pl # 0
        /\ HasPlaylist(pr.tenant, pl)
        /\ SetItems([items EXCEPT ![pl] =
                        SelectSeq(@, LAMBDA it : it.id # id)])
        /\ procs' = Disturb([procs EXCEPT ![p] =
                                IF Tail(pr.ids) = <<>> THEN ClearNext(lg) ELSE lg],
                            p, pl)
        /\ UNCHANGED <<dbVars, playlists, nextPlaylistId, nextItemId, lastEnsure>>

ApiPcs == {"ensureList", "ensureInsert", "addInsert", "skipList",
           "skipDelete", "npList", "clearList", "clearDelete"}

\* A YouTube API call rejects; the catch of the method rethrows the error
\* (addToPlaylist rewords two of them).
ApiFails(p) ==
    LET pr == procs[p]
    IN  /\ pr.pc \in ApiPcs
        /\ procs' = [procs EXCEPT ![p] =
               Thrown(Logged(pr, Event(CallName(pr.pc), pr.playlistId, <<>>, FALSE)),
                      "api")]
        /\ lastEnsure' = LastEnsureAfter(pr, None)
        /\ UNCHANGED <<dbVars, ytVars>>

\* ---- calls of the Google methods on one instance (that of user t1) ----

ClientUser == "t1"

\* A method that goes to the API without ensureGoogleAccess.
ClientCall_NoAccessCheck(op) ==
    [IdleProc EXCEPT !.kind = "call", !.tenant = ClientUser, !.google = 1,
                     !.pc = FirstCall(op), !.op = op, !.ret = "direct"]

\* A call starts on the instance.
ClientCall(op) ==
    [IdleProc EXCEPT !.kind = "call", !.tenant = ClientUser, !.google = 1,
                     !.pc = "access", !.op = op, !.ret = "direct"]

\* google.ensurePlaylist(name) is called.
CallEnsurePlaylist(p, name) ==
    /\ procs[p].pc = "idle"
    /\ procs' = [q \in Procs |->
          IF q = p
          THEN [ClientCall("ensure") EXCEPT
                    !.name = name,
                    !.solo = (\A r \in Procs : ~InEnsure(r)),
                    !.prev = lastEnsure]
          ELSE IF InEnsure(q) THEN [procs[q] EXCEPT !.solo = FALSE]
          ELSE procs[q]]
    /\ UNCHANGED <<dbVars, ytVars, lastEnsure>>

\* google.addToPlaylist(pl, videoId) is called.
CallAddToPlaylist(p, pl, videoId) ==
    /\ procs[p].pc = "idle"
    /\ procs' = [procs EXCEPT ![p] =
          [ClientCall("add") EXCEPT !.playlistId = pl, !.addVideo = videoId]]
    /\ UNCHANGED <<dbVars, ytVars, lastEnsure>>

\* google.skipFirst(pl) is called.
CallSkipFirst(p, pl) ==
    /\ procs[p].pc = "idle"
    /\ procs' = [procs EXCEPT ![p] =
          [ClientCall("skip") EXCEPT !.playlistId = pl, !.before = items[pl]]]
    /\ UNCHANGED <<dbVars, ytVars, lastEnsure>>

\* google.nowPlaying(pl) is called.
CallNowPlaying(p, pl) ==
    /\ procs[p].pc = "idle"
    /\ procs' = [procs EXCEPT ![p] =
          [ClientCall("np") EXCEPT !.playlistId = pl]]
    /\ UNCHANGED <<dbVars, ytVars, lastEnsure>>

\* google.clearPlaylist(pl) is called.
CallClearPlaylist(p, pl) ==
    /\ procs[p].pc = "idle"
    /\ procs' = [procs EXCEPT ![p] =
          [ClientCall("clear") EXCEPT !.playlistId = pl]]
    /\ UNCHANGED <<dbVars, ytVars, lastEnsure>>

\* ---- what happens to the playlists outside the bot ----

AllDisturbed(ps, pl) == Disturb(ps, 0, pl)

\* The owner adds a video to a playlist on YouTube, first or last.
ExternalInsertItem(pl, front) ==
    /\ HasPlaylist(ClientUser, pl)
    /\ nextItemId <= MaxItems
    /\ SetItems([items EXCEPT ![pl] =
                    IF front THEN <<ItemOf(nextItemId, <<"x">>)>> \o @
                    ELSE Append(@, ItemOf(nextItemId, <<"x">>))])
    /\ nextItemId' = nextItemId + 1
    /\ procs' = AllDisturbed(procs, pl)
    /\ UNCHANGED <<dbVars, playlists, nextPlaylistId, lastEnsure>>

\* The owner removes an item from a playlist on YouTube.
ExternalDeleteItem(pl, i) ==
    /\ i \in 1..Len(items[pl])
    /\ SetItems([items EXCEPT ![pl] =
                    SubSeq(@, 1, i - 1) \o SubSeq(@, i + 1, Len(@))])
    /\ procs' = AllDisturbed(procs, pl)
    /\ UNCHANGED <<dbVars, playlists, nextPlaylistId, nextItemId, lastEnsure>>

\* The owner deletes a playlist on YouTube.
ExternalDeletePlaylist(i) ==
    LET all == playlists[ClientUser]
    IN  /\ i \in 1..Len(all)
        /\ playlists' = [playlists EXCEPT ![ClientUser] =
                            SubSeq(all, 1, i - 1) \o SubSeq(all, i + 1, Len(all))]
        /\ SetItems([items EXCEPT ![all[i].id] = <<>>])
        /\ procs' = [q \in Procs |->
              IF InEnsure(q)
              THEN [AllDisturbed(procs, all[i].id)[q] EXCEPT !.solo = FALSE]
              ELSE AllDisturbed(procs, all[i].id)[q]]
        /\ lastEnsure' = None
        /\ UNCHANGED <<dbVars, nextPlaylistId, nextItemId>>

\* ---- the states the client calls start from ----

NameReq == <<"R","e","q">>

NameReqSpaced == <<" ","r","E","Q"," ">>

NameMix == <<"M","i","x">>

ClientNames == {NameReq, NameReqSpaced, NameMix}

\* The user rows: the Google account linked or not, no playlist id yet.
RowOf(linked, pl, name) ==
    [googleRefreshToken |-> linked, youtubePlaylistId |-> pl,
     playlistName |-> name]

NoItems == [pl \in PlaylistIds |-> <<>>]

OldItem(id) == [id |-> id, videoId |-> <<"o">>, title |-> <<>>, owner |-> <<>>]

\* The state the ensurePlaylist calls start from: the account holds none,
\* one or two playlists, one of which may carry the name asked for.
EnsureInit ==
    /\ db = [t \in Tenants |-> RowOf(TRUE, 0, NameReq)]
    /\ googleInstances = [t \in Tenants |-> IF t = ClientUser THEN 1 ELSE 0]
    /\ nextInstance = 2
    /\ \E n \in 0..2 :
          /\ playlists \in
               {[t \in Tenants |-> IF t = ClientUser THEN SubSeq(l, 1, n) ELSE <<>>] :
                   l \in {<<[id |-> 1, title |-> NameMix], [id |-> 2, title |-> NameReqSpaced]>>,
                          <<[id |-> 1, title |-> NameReq], [id |-> 2, title |-> NameMix]>>}}
          /\ nextPlaylistId = n + 1
    /\ items = NoItems
    /\ nextItemId = 1
    /\ everHead = {}
    /\ procs = [p \in Procs |-> IdleProc]
    /\ lastEnsure = None

\* The state the skipFirst and addToPlaylist calls start from: one playlist
\* with none, one or two items.
SkipInit ==
    /\ db = [t \in Tenants |-> RowOf(TRUE, 0, NameReq)]
    /\ googleInstances = [t \in Tenants |-> IF t = ClientUser THEN 1 ELSE 0]
    /\ nextInstance = 2
    /\ playlists = [t \in Tenants |->
                       IF t = ClientUser THEN <<[id |-> 1, title |-> NameReq]>>
                       ELSE <<>>]
    /\ nextPlaylistId = 2
    /\ \E k \in 0..2 :
          /\ items = [NoItems EXCEPT ![1] = [i \in 1..k |-> OldItem(i)]]
          /\ nextItemId = k + 1
          /\ everHead = Heads(items)
    /\ procs = [p \in Procs |-> IdleProc]
    /\ lastEnsure = None

BotIdle ==
    /\ db = [t \in Tenants |-> RowOf(FALSE, 0, <<>>)]
    /\ googleInstances = [t \in Tenants |-> 0]
    /\ nextInstance = 1
    /\ playlists = [t \in Tenants |-> <<>>]
    /\ items = NoItems
    /\ nextPlaylistId = 1
    /\ nextItemId = 1
    /\ everHead = {}
    /\ procs = [p \in Procs |-> IdleProc]
    /\ lastEnsure = None

\* ---- the message handler: one action per resolved await ----

\* chatClient.onMessage fires: the handler starts and waits for
\* prisma.user.findFirst. channel.replace('#', '') is the channel name.
Receive(p, m) ==
    /\ procs[p].pc = "idle"
    /\ procs' = [procs EXCEPT ![p] =
          [IdleProc EXCEPT !.kind = "msg", !.pc = "findFirst",
                           !.tenant = m.channel, !.text = m.text,
                           !.isMod = m.isMod,
                           !.isBroadcaster = m.isBroadcaster]]
    /\ UNCHANGED <<dbVars, ytVars, lastEnsure>>

\* prisma.user.findFirst resolves: without a row the handler returns, with
\* one it goes through the three command blocks.
FindFirstOk(p) ==
    LET pr  == procs[p]
        row == UserRow(pr.tenant)
    IN  /\ pr.pc = "findFirst"
        /\ procs' = [procs EXCEPT ![p] =
               IF ~row.found THEN [pr EXCEPT !.pc = "done"]
               ELSE Dispatch([pr EXCEPT !.dbUser = row])]
        /\ UNCHANGED <<dbVars, ytVars, lastEnsure>>

\* getGoogleForUser putting the instance in the Map before it is initialized.
FindUniqueOk_CacheBeforeInit(p) ==
    LET pr == procs[p]
    IN  /\ pr.pc = "findUnique"
        /\ IF ~db[pr.tenant].googleRefreshToken
           THEN /\ procs' = [procs EXCEPT ![p] = AfterSession([pr EXCEPT !.google = 0])]
                /\ UNCHANGED <<nextInstance, googleInstances>>
           ELSE /\ procs' = [procs EXCEPT ![p] =
                       [pr EXCEPT !.google = nextInstance, !.pc = "init"]]
                /\ googleInstances' = [googleInstances EXCEPT ![pr.tenant] = nextInstance]
                /\ nextInstance' = nextInstance + 1
        /\ UNCHANGED <<db, ytVars, lastEnsure>>

\* getGoogleForUser: prisma.user.findUnique resolves; without a refresh
\* token null is returned, else a Google instance is constructed.
FindUniqueOk(p) ==
    LET pr == procs[p]
    IN  /\ pr.pc = "findUnique"
        /\ IF ~db[pr.tenant].googleRefreshToken
           THEN /\ procs' = [procs EXCEPT ![p] = AfterSession([pr EXCEPT !.google = 0])]
                /\ UNCHANGED nextInstance
           ELSE /\ procs' = [procs EXCEPT ![p] =
                       [pr EXCEPT !.google = nextInstance, !.pc = "init"]]
                /\ nextInstance' = nextInstance + 1
        /\ UNCHANGED <<db, googleInstances, ytVars, lastEnsure>>

\* getGoogleForUser: google.initialize() resolves (ytmusic.initialize and
\* ensureGoogleAccess) and the instance is put in the Map.
InitializeOk(p) ==
    LET pr == procs[p]
    IN  /\ pr.pc = "init"
        /\ googleInstances' = [googleInstances EXCEPT ![pr.tenant] = pr.google]
        /\ procs' = [procs EXCEPT ![p] = AfterSession(pr)]
        /\ UNCHANGED <<db, nextInstance, ytVars, lastEnsure>>

\* The search results a !sr query can meet.
MsgResults == {
    <<>>,
    <<[Cand(JStr(<<"v","i","d","e","o">>), JStr(TxHelloAdele), JUndef, JUndef, JUndef)
          EXCEPT !.videoId = VideoIdOf(1)],
      [Cand(JStr(SongType), JStr(TxHello), JUndef, JArr(<<JObj(TxAdele)>>), JUndef)
          EXCEPT !.videoId = VideoIdOf(2)]>>,
    <<[Cand(JStr(<<"a","l","b","u","m">>), JStr(TxHello), JUndef, JUndef, JUndef)
          EXCEPT !.videoId = VideoIdOf(1)]>> }

\* The handler going on to the playlist without looking at what the
\* search returned.
SrSearchOk_NoNullCheck(p, results) ==
    LET pr   == procs[p]
        lg   == Logged(pr, Event("search", 0, <<>>, TRUE))
        best == searchBestMatch(pr.query, results)
    IN  /\ pr.pc = "search"
        /\ ~SearchThrows(results)
        /\ procs' = [procs EXCEPT ![p] =
               ResolvePlaylist([lg EXCEPT
                   !.best = best,
                   !.addVideo = IF best = None THEN <<>> ELSE best[1].videoId])]
        /\ UNCHANGED <<dbVars, ytVars, lastEnsure>>

\* google.searchBestMatch(query) resolves.
SrSearchOk(p, results) ==
    LET pr   == procs[p]
        lg   == Logged(pr, Event("search", 0, <<>>, TRUE))
        best == searchBestMatch(pr.query, results)
    IN  /\ pr.pc = "search"
        /\ ~SearchThrows(results)
        /\ procs' = [procs EXCEPT ![p] =
               IF best = None
               THEN Say(lg, NoResultsReply(pr.query))
               ELSE ResolvePlaylist([lg EXCEPT !.best = best,
                                               !.addVideo = best[1].videoId])]
        /\ UNCHANGED <<dbVars, ytVars, lastEnsure>>

\* prisma.user.update({ data: { youtubePlaylistId: playlistId } }) resolves.
UpdateOk(p) ==
    LET pr == procs[p]
        lg == Logged(pr, Event("user.update", pr.playlistId, <<>>, TRUE))
    IN  /\ pr.pc = "update"
        /\ db' = [db EXCEPT ![pr.dbUser.id].youtubePlaylistId = pr.playlistId]
        /\ procs' = [procs EXCEPT ![p] = StartAdd(lg)]
        /\ UNCHANGED <<googleInstances, nextInstance, ytVars, lastEnsure>>

\* chatClient.say resolves: the reply is in the channel. Every say of the
\* handler is followed by a return or by the end of the handler.
SayOk(p) ==
    LET pr == procs[p]
    IN  /\ pr.pc = "say"
        /\ procs' = [procs EXCEPT ![p] =
               [pr EXCEPT !.pc = "done", !.replies = Append(@, pr.sayText)]]
        /\ UNCHANGED <<dbVars, ytVars, lastEnsure>>

HandlerPcs == {"findFirst", "findUnique", "init", "search", "update", "say"}

\* The call a handler at pc waits for.
HandlerCall(pc) ==
    IF pc = "findFirst" THEN "user.findFirst"
    ELSE IF pc = "findUnique" THEN "user.findUnique"
    ELSE IF pc = "init" THEN "initialize"
    ELSE IF pc = "update" THEN "user.update"
    ELSE pc

\* The call a handler waits for rejects (the row lookup, the session set-up,
\* the search, the row update, the say): inside a try block the catch
\* block replies, outside the error leaves the handler.
HandlerCallFails(p) ==
    LET pr == procs[p]
    IN  /\ pr.pc \in HandlerPcs
        /\ procs' = [procs EXCEPT ![p] =
               Thrown(Logged(pr, Event(HandlerCall(pr.pc), 0, <<>>, FALSE)), pr.pc)]
        /\ UNCHANGED <<dbVars, ytVars, lastEnsure>>

\* ---- the messages and the states the handler starts from ----

Msg(channel, text, isMod, isBroadcaster) ==
    [channel |-> channel, text |-> text, isMod |-> isMod,
     isBroadcaster |-> isBroadcaster]

TxSrLink == <<"!","s","r"," ">> \o ShortUrlPrefix \o <<"d","Q","w","4","w","9","W","g","X","c","Q">>

TxSrQuery == <<"!","S","R"," ">> \o TxHelloAdele

TxSrBlank == <<"!","s","r"," "," ">>

TxSrBare == <<"!","s","r">>

TxSkipUpper == <<"!","S","k","i","p">>

TxOther == <<"h","i">>

\* The messages the bot hears: in the channel of user t1 every command,
\* from every kind of chatter; in the channel of user t2 a request; and a
\* command in a channel that has no user row.
Messages ==
    {Msg("t1", t, FALSE, FALSE) :
        t \in {TxSrLink, TxSrQuery, TxSrBlank, TxSrBare, CmdNp, TxOther}}
    \cup {Msg("t1", CmdSkip, m, b) : m \in BOOLEAN, b \in BOOLEAN}
    \cup {Msg("t1", TxSkipUpper, m, FALSE) : m \in BOOLEAN}
    \cup {Msg("t2", TxSrLink, FALSE, FALSE), Msg("nobody", CmdSkip, TRUE, FALSE)}

\* The state the bot is in when the messages arrive. User t1: the Google
\* account linked or not, and when linked either no playlist yet, or a
\* playlist of the configured name that the row does not know, or one the
\* row knows, with none or one item. User t2: linked, no playlist yet.
BotInit ==
    /\ \E c \in {"unlinked", "fresh", "unknown", "known"} : \E k \in 0..1 :
          /\ (k = 1 => c = "known")
          /\ db = [t \in Tenants |->
                     IF t = "t1"
                     THEN RowOf(c # "unlinked", IF c = "known" THEN 1 ELSE 0, NameReq)
                     ELSE RowOf(TRUE, 0, NameMix)]
          /\ playlists = [t \in Tenants |->
                     IF t = "t1" /\ c \in {"unknown", "known"}
                     THEN <<[id |-> 1, title |-> NameReqSpaced]>>
                     ELSE <<>>]
          /\ nextPlaylistId = IF c \in {"unknown", "known"} THEN 2 ELSE 1
          /\ items = [NoItems EXCEPT ![1] = [i \in 1..k |-> OldItem(i)]]
          /\ nextItemId = k + 1
          /\ everHead = Heads(items)
    /\ googleInstances = [t \in Tenants |-> 0]
    /\ nextInstance = 1
    /\ procs = [p \in Procs |-> IdleProc]
    /\ lastEnsure = None

\* ------------------------------------------------------------------------
\* The channel watcher (setInterval, every five minutes)
\* ------------------------------------------------------------------------

\* The twitchUsername of the user rows, in the order findMany gives them.
UserRows == <<"a", "b", "c">>

Handles == {UserRows[n] : n \in 1..Len(UserRows)}

\* The runs of the setInterval callback that can be in flight at once.
NumTicks == 2

Ticks == 1..NumTicks

Range(s) == {s[n] : n \in 1..Len(s)}

\* prisma.user.findMany({ where: { isActive: true } })
ActiveRows == SelectSeq(UserRows, LAMBDA h : h \in active)

\* A run of the callback that has not started.
IdleTick ==
    [pc |-> "idle", currentUsers |-> <<>>, i |-> 0, j |-> 0,
     target |-> "none", clean |-> TRUE, solo |-> TRUE, lastOk |-> TRUE]

TickRunning(tk) == tk.pc \in {"findMany", "addUser", "join", "part"}

\* A call of the run ended: lastOk tells whether it succeeded, clean
\* whether all of them did.
Called(tk, ok) == [tk EXCEPT !.clean = @ /\ ok, !.lastOk = ok]

\* The callback ends, by running to its end ("done") or by an error that
\* nothing catches ("aborted"); its loop variables are gone.
Ended(tk, pc) ==
    [IdleTick EXCEPT !.pc = pc, !.currentUsers = tk.currentUsers,
                     !.clean = tk.clean, !.solo = tk.solo,
                     !.lastOk = tk.lastOk]

\* for (const channel of channels): the array iterator reads the live
\* array at index j (j - 1 counted from 0) and stops when j is past its
\* end; the first channel without a user in currentUsers is parted.
RECURSIVE PartScan(_, _, _)
PartScan(tk, chs, j) ==
    IF j > Len(chs)
    THEN Ended(tk, "done")
    ELSE IF chs[j] \notin Range(tk.currentUsers)
    THEN [tk EXCEPT !.pc = "part", !.target = chs[j], !.j = j + 1]
    ELSE PartScan(tk, chs, j + 1)

\* for (const user of currentUsers): the first user from index i on whose
\* name channels does not include is added; after the last user the
\* second loop starts.
RECURSIVE JoinScan(_, _, _)
JoinScan(tk, chs, i) ==
    IF i > Len(tk.currentUsers)
    THEN PartScan(tk, chs, 1)
    ELSE IF tk.currentUsers[i] \notin Range(chs)
    THEN [tk EXCEPT !.pc = "addUser", !.i = i]
    ELSE JoinScan(tk, chs, i + 1)

\* channels.indexOf(channel), counted from 1; 0 when it is not there.
IndexOf(chs, ch) ==
    IF ch \in Range(chs)
    THEN CHOOSE n \in 1..Len(chs) :
             chs[n] = ch /\ \A m \in 1..(n - 1) : chs[m] # ch
    ELSE 0

\* channels.splice(index, 1), index counted from 1.
Splice(chs, index) ==
    [n \in 1..(Len(chs) - 1) |-> IF n < index THEN chs[n] ELSE chs[n + 1]]

\* The timer fires: the callback starts and waits for findMany.
TickStart(k) ==
    /\ ~TickRunning(ticks[k])
    /\ ticks' = [q \in Ticks |->
          IF q = k
          THEN [IdleTick EXCEPT !.pc = "findMany",
                   !.solo = \A r \in Ticks \ {k} : ~TickRunning(ticks[r])]
          ELSE IF TickRunning(ticks[q])
          THEN [ticks[q] EXCEPT !.solo = FALSE]
          ELSE ticks[q]]
    /\ UNCHANGED <<channels, active>>

\* A run that takes every active user for one that is not joined.
FindManyOk_IgnoreJoined(k) ==
    /\ ticks[k].pc = "findMany"
    /\ ticks' = [ticks EXCEPT ![k] =
          JoinScan([ticks[k] EXCEPT !.currentUsers = ActiveRows], <<>>, 1)]
    /\ UNCHANGED <<channels, active>>

FindManyOk(k) ==
    /\ ticks[k].pc = "findMany"
    /\ ticks' = [ticks EXCEPT ![k] =
          JoinScan([ticks[k] EXCEPT !.currentUsers = ActiveRows], channels, 1)]
    /\ UNCHANGED <<channels, active>>

\* findMany rejects: the callback ends with the error.
FindManyFails(k) ==
    /\ ticks[k].pc = "findMany"
    /\ ticks' = [ticks EXCEPT ![k] = Ended(Called(@, FALSE), "aborted")]
    /\ UNCHANGED <<channels, active>>

AddUserOk(k) ==
    LET tk == ticks[k]
    IN  /\ tk.pc = "addUser"
        /\ ticks' = [ticks EXCEPT ![k] =
              [Called(tk, TRUE) EXCEPT !.pc = "join"]]
        /\ UNCHANGED <<channels, active>>

\* addUser throws: the catch block logs and the loop goes on.
AddUserFails(k) ==
    LET tk == ticks[k]
    IN  /\ tk.pc = "addUser"
        /\ ticks' = [ticks EXCEPT ![k] =
              JoinScan(Called(tk, FALSE),
                       channels, tk.i + 1)]
        /\ UNCHANGED <<channels, active>>

\* A failed join that is followed by the push all the same.
JoinFails_PushAnyway(k) ==
    LET tk  == ticks[k]
        chs == Append(channels, tk.currentUsers[tk.i])
    IN  /\ tk.pc = "join"
        /\ channels' = chs
        /\ ticks' = [ticks EXCEPT ![k] =
              JoinScan(Called(tk, FALSE), chs, tk.i + 1)]
        /\ UNCHANGED active

\* A join that resolves without the push.
JoinOk_NoPush(k) ==
    LET tk == ticks[k]
    IN  /\ tk.pc = "join"
        /\ ticks' = [ticks EXCEPT ![k] =
              JoinScan(Called(tk, TRUE), channels, tk.i + 1)]
        /\ UNCHANGED <<channels, active>>

\* chatClient.join resolves: channels.push(user.twitchUsername).
JoinOk(k) ==
    LET tk  == ticks[k]
        chs == Append(channels, tk.currentUsers[tk.i])
    IN  /\ tk.pc = "join"
        /\ channels' = chs
        /\ ticks' = [ticks EXCEPT ![k] =
              JoinScan(Called(tk, TRUE), chs, tk.i + 1)]
        /\ UNCHANGED active

JoinFails(k) ==
    LET tk == ticks[k]
    IN  /\ tk.pc = "join"
        /\ ticks' = [ticks EXCEPT ![k] =
              JoinScan(Called(tk, FALSE),
                       channels, tk.i + 1)]
        /\ UNCHANGED <<channels, active>>

\* chatClient.part resolves: indexOf, splice, and the loop goes on.
PartOk(k) ==
    LET tk    == ticks[k]
        index == IndexOf(channels, tk.target)
        chs   == IF index > 0 THEN Splice(channels, index) ELSE channels
    IN  /\ tk.pc = "part"
        /\ channels' = chs
        /\ ticks' = [ticks EXCEPT ![k] =
              PartScan(Called(tk, TRUE), chs, tk.j)]
        /\ UNCHANGED active

\* chatClient.part rejects: nothing catches it, the callback ends.
PartFails(k) ==
    LET tk == ticks[k]
    IN  /\ tk.pc = "part"
        /\ ticks' = [ticks EXCEPT ![k] =
              Ended(Called(tk, FALSE), "aborted")]
        /\ UNCHANGED <<channels, active>>

\* The dashboard: POST /api/toggle flips isActive of one user.
ToggleActive(h) ==
    /\ active' = IF h \in active THEN active \ {h} ELSE active \cup {h}
    /\ UNCHANGED <<channels, ticks>>

\* main(): channels is the names of the users that are active at startup.
ReInit ==
    /\ active \in SUBSET Handles
    /\ channels = ActiveRows
    /\ ticks = [k \in Ticks |-> IdleTick]

\* The watcher does not run.
ReIdle ==
    /\ active = {}
    /\ channels = <<>>
    /\ ticks = [k \in Ticks |-> IdleTick]

Init == BotInit /\ ExIdle /\ SbIdle /\ ReIdle

Next ==
    /\ \E p \in Procs :
          \/ \E m \in Messages : Receive(p, m)
          \/ FindFirstOk(p)
          \/ FindUniqueOk(p)
          \/ InitializeOk(p)
          \/ \E results \in MsgResults : SrSearchOk(p, results)
          \/ UpdateOk(p)
          \/ SayOk(p)
          \/ HandlerCallFails(p)
          \/ AccessOk(p)
          \/ AccessFails(p)
          \/ EnsureListOk(p)
          \/ EnsureInsertOk(p)
          \/ AddInsertOk(p)
          \/ SkipListOk(p)
          \/ SkipDeleteOk(p)
          \/ NpListOk(p)
          \/ ApiFails(p)
    /\ UNCHANGED <<exVars, sbVars, reVars>>

Spec == Init /\ [][Next]_vars

InitEnsure == EnsureInit /\ ExIdle /\ SbIdle /\ ReIdle

NextEnsure ==
    \/ /\ \E p \in Procs :
             \/ \E name \in ClientNames : CallEnsurePlaylist(p, name)
             \/ AccessOk(p)
             \/ AccessFails(p)
             \/ EnsureListOk(p)
             \/ EnsureInsertOk(p)
             \/ ApiFails(p)
       /\ UNCHANGED <<exVars, sbVars, reVars>>
    \/ /\ \E i \in 1..MaxPlaylists : ExternalDeletePlaylist(i)
       /\ UNCHANGED <<exVars, sbVars, reVars>>

SpecEnsure == InitEnsure /\ [][NextEnsure]_vars

InitSkip == SkipInit /\ ExIdle /\ SbIdle /\ ReIdle

NextSkip ==
    \/ /\ \E p \in Procs :
             \/ \E pl \in PlaylistIds :
                   HasPlaylist(ClientUser, pl) /\ CallSkipFirst(p, pl)
             \/ \E pl \in PlaylistIds :
                   HasPlaylist(ClientUser, pl) /\ CallAddToPlaylist(p, pl, <<"v">>)
             \/ AccessOk(p)
             \/ AccessFails(p)
             \/ SkipListOk(p)
             \/ SkipDeleteOk(p)
             \/ AddInsertOk(p)
             \/ ApiFails(p)
       /\ UNCHANGED <<exVars, sbVars, reVars>>
    \/ /\ \E pl \in PlaylistIds :
             \/ \E front \in BOOLEAN : ExternalInsertItem(pl, front)
             \/ \E i \in 1..MaxItems : ExternalDeleteItem(pl, i)
       /\ UNCHANGED <<exVars, sbVars, reVars>>

SpecSkip == InitSkip /\ [][NextSkip]_vars

\* The five methods of Google called on one instance, side by side.
InitClient == SkipInit /\ ExIdle /\ SbIdle /\ ReIdle

NextClient ==
    /\ \E p \in Procs :
          \/ CallEnsurePlaylist(p, NameMix)
          \/ \E pl \in PlaylistIds :
                /\ HasPlaylist(ClientUser, pl)
                /\ \/ CallAddToPlaylist(p, pl, <<"v">>)
                   \/ CallSkipFirst(p, pl)
                   \/ CallNowPlaying(p, pl)
                   \/ CallClearPlaylist(p, pl)
          \/ AccessOk(p)
          \/ AccessFails(p)
          \/ EnsureListOk(p)
          \/ EnsureInsertOk(p)
          \/ AddInsertOk(p)
          \/ SkipListOk(p)
          \/ SkipDeleteOk(p)
          \/ NpListOk(p)
          \/ ClearListOk(p)
          \/ ClearDeleteOk(p)
          \/ ApiFails(p)
    /\ UNCHANGED <<exVars, sbVars, reVars>>

SpecClient == InitClient /\ [][NextClient]_vars

InitExtract == ExInit /\ SbIdle /\ BotIdle /\ ReIdle

NextExtract == ExtractCall /\ UNCHANGED <<sbVars, botVars, reVars>>

SpecExtract == InitExtract /\ [][NextExtract]_vars

InitSearch == SbInit /\ ExIdle /\ BotIdle /\ ReIdle

NextSearch ==
    \/ SearchReturns /\ UNCHANGED <<exVars, botVars, reVars>>
    \/ SearchFails /\ UNCHANGED <<exVars, botVars, reVars>>

SpecSearch == InitSearch /\ [][NextSearch]_vars

\* The watcher with the dashboard, every run of the callback ending before
\* the timer fires again.
InitRecon == ReInit /\ ExIdle /\ SbIdle /\ BotIdle

NextRecon ==
    /\ \/ \E k \in Ticks :
             \/ TickStart(k) /\ \A r \in Ticks : ~TickRunning(ticks[r])
             \/ FindManyOk(k)
             \/ FindManyFails(k)
             \/ AddUserOk(k)
             \/ AddUserFails(k)
             \/ JoinOk(k)
             \/ JoinFails(k)
             \/ PartOk(k)
             \/ PartFails(k)
       \/ \E h \in Handles : ToggleActive(h)
    /\ UNCHANGED <<exVars, sbVars, botVars>>

SpecRecon == InitRecon /\ [][NextRecon]_vars

\* The watcher whose timer fires whether or not the run before it has
\* ended: setInterval does not wait for the promise of the callback. The
\* dashboard flips isActive between the runs.
NextReconOverlap ==
    /\ \/ \E k \in Ticks :
             \/ TickStart(k)
             \/ FindManyOk(k)
             \/ FindManyFails(k)
             \/ AddUserOk(k)
             \/ AddUserFails(k)
             \/ JoinOk(k)
             \/ JoinFails(k)
             \/ PartOk(k)
             \/ PartFails(k)
       \/ /\ \A r \in Ticks : ~TickRunning(ticks[r])
          /\ \E h \in Handles : ToggleActive(h)
    /\ UNCHANGED <<exVars, sbVars, botVars>>

SpecReconOverlap == InitRecon /\ [][NextReconOverlap]_vars

\* setInterval(..., 5 * 60 * 1000): the timer fires again once the run
\* before it has ended.
TimerFires ==
    /\ \E k \in Ticks :
          TickStart(k) /\ \A r \in Ticks : ~TickRunning(ticks[r])
    /\ UNCHANGED <<exVars, sbVars, botVars>>

\* The call a run of the callback waits for settles, resolved or rejected.
Settles(k) ==
    /\ \/ FindManyOk(k)
       \/ FindManyFails(k)
       \/ AddUserOk(k)
       \/ AddUserFails(k)
       \/ JoinOk(k)
       \/ JoinFails(k)
       \/ PartOk(k)
       \/ PartFails(k)
    /\ UNCHANGED <<exVars, sbVars, botVars>>

\* The watcher whose timer keeps firing and whose awaited calls all settle.
SpecReconFair ==
    /\ InitRecon
    /\ [][NextRecon]_vars
    /\ WF_vars(TimerFires)
    /\ \A k \in Ticks : WF_vars(Settles(k))

\* The messages heard while the watcher runs.
ChatSample ==
    {Msg("t1", TxSrLink, FALSE, FALSE), Msg("t1", CmdSkip, TRUE, FALSE)}

\* The watcher and the message handler side by side: one run of the
\* callback at a time, one message at a time.
InitReconChat == ReInit /\ BotInit /\ ExIdle /\ SbIdle

NextReconChat ==
    \/ /\ \/ TickStart(1)
          \/ FindManyOk(1)
          \/ FindManyFails(1)
          \/ AddUserOk(1)
          \/ AddUserFails(1)
          \/ JoinOk(1)
          \/ JoinFails(1)
          \/ PartOk(1)
          \/ PartFails(1)
          \/ \E h \in Handles : ToggleActive(h)
       /\ UNCHANGED <<exVars, sbVars, botVars>>
    \/ /\ \/ \E m \in ChatSample : Receive(1, m)
          \/ FindFirstOk(1)
          \/ FindUniqueOk(1)
          \/ InitializeOk(1)
          \/ UpdateOk(1)
          \/ SayOk(1)
          \/ HandlerCallFails(1)
          \/ AccessOk(1)
          \/ AccessFails(1)
          \/ EnsureListOk(1)
          \/ EnsureInsertOk(1)
          \/ AddInsertOk(1)
          \/ SkipListOk(1)
          \/ SkipDeleteOk(1)
          \/ ApiFails(1)
       /\ UNCHANGED <<exVars, sbVars, reVars>>

SpecReconChat == InitReconChat /\ [][NextReconChat]_vars

\* ========================================================================
\* Claims
\* ========================================================================

\* An id of 11 characters at p that ends there: the end of the text or a
\* character outside the id alphabet follows it.
WholeIdAt(s, p) ==
    /\ IdAt(s, p)
    /\ (p + VideoIdLen > Len(s) \/ ~IsIdChar(s[p + VideoIdLen]))

\* The ids of the short links (youtu.be/<id>) a text holds.
ShortLinkIds(s) ==
    {SubSeq(s, p + Len(ShortLit), p + Len(ShortLit) + VideoIdLen - 1) :
        p \in {p \in 1..Len(s) :
                  LitAt(s, p, ShortLit) /\ WholeIdAt(s, p + Len(ShortLit))}}

\* The ids of the watch URLs (youtube.com/watch?...v=<id>, with or without
\* the music subdomain) a text holds: v is the first query parameter or
\* follows an "&".
WatchUrlIds(s) ==
    {SubSeq(s, q + 2, q + 1 + VideoIdLen) :
        q \in {q \in 1..Len(s) :
                  /\ LitAt(s, q, VEq)
                  /\ WholeIdAt(s, q + 2)
                  /\ \E p \in 1..Len(s) :
                        /\ LitAt(s, p, WatchLit)
                        /\ \/ q = p + Len(WatchLit)
                           \/ (q > p + Len(WatchLit) /\ s[q - 1] = "&")}}

\* Whether a text holds the host and path of one of the three shapes at all.
HoldsUrlHost(s) ==
    \E p \in 1..Len(s) : LitAt(s, p, ShortLit) \/ LitAt(s, p, WatchLit)

\* C9 (as claimed): extractYouTubeVideoId returns the 11-character id of a
\* text that holds a URL in one of the three shapes (watch URL, short link,
\* music watch URL), and null for a text that holds none of them, such as
\* a bare id.
C9_ExtractsEveryShape ==
    exPc = "done" =>
        /\ (ShortLinkIds(exText) \cup WatchUrlIds(exText) # {} =>
               /\ exResult # None
               /\ exResult[1] \in ShortLinkIds(exText) \cup WatchUrlIds(exText))
        /\ (~HoldsUrlHost(exText) => exResult = None)

\* C9, the two directions taken apart, to see which one the code breaks.
C9_ShapeGivesId ==
    exPc = "done" /\ ShortLinkIds(exText) \cup WatchUrlIds(exText) # {}
        => exResult # None

C9_NoHostGivesNull ==
    exPc = "done" /\ ~HoldsUrlHost(exText) => exResult = None

C9_WatchGivesId ==
    exPc = "done" /\ WatchUrlIds(exText) # {}
        => exResult # None /\ exResult[1] \in WatchUrlIds(exText)

\* Whether a search result is classified "song", in any letter case.
TypeIsSong(r) == r.type.kind = "str" /\ ToLowerCase(r.type.name) = SongType

\* C10: searchBestMatch returns only a pick built from a result whose type
\* is "song" (compared without regard to case), whatever the similarity of
\* the other results to the query, and null exactly when the results hold
\* no song.
C10_OnlySongsPicked ==
    sbPc = "done" =>
        /\ (sbOut = None) =
               (\A i \in 1..Len(sbResults) : ~TypeIsSong(sbResults[i]))
        /\ (sbOut # None =>
               \E i \in 1..Len(sbResults) :
                   /\ sbResults[i].videoId = sbOut[1].videoId
                   /\ TypeIsSong(sbResults[i]))

\* C10 witness: a pick was returned although a result that is no song
\* scores higher against the query than the result picked.
C10_Witness ==
    /\ sbPc = "done"
    /\ sbOut # None
    /\ \E i, j \in 1..Len(sbResults) :
          /\ sbResults[i].videoId = sbOut[1].videoId
          /\ ~TypeIsSong(sbResults[j])
          /\ ScoreGreater(Score(sbQuery, sbResults[j]),
                          Score(sbQuery, sbResults[i]))

\* The successful calls of one API method in the log of a process.
Calls(pr, ev) == {i \in 1..Len(pr.log) : pr.log[i].ev = ev /\ pr.log[i].ok}

\* C3: two ensurePlaylist calls one after the other with the same name, on
\* the same account, with no other ensurePlaylist call in flight and no
\* change made to the playlists from outside in between, return the same
\* playlist id, and the second one creates no playlist.
C3_EnsurePlaylistIdempotent ==
    \A p \in Procs :
        LET pr == procs[p]
        IN  (/\ pr.pc = "returned"
             /\ pr.op = "ensure"
             /\ pr.solo
             /\ pr.prev # None
             /\ pr.prev[1].name = pr.name)
            => /\ pr.result = Some(pr.prev[1].id)
               /\ Calls(pr, "playlists.insert") = {}

\* C3 witness: the second of two such calls has returned, and the first
\* one had created the playlist.
C3_Witness ==
    \E p \in Procs :
        /\ procs[p].pc = "returned"
        /\ procs[p].op = "ensure"
        /\ procs[p].solo
        /\ procs[p].prev # None
        /\ procs[p].prev[1].name = procs[p].name
        /\ procs[p].prev[1].created

\* The ids of the items of a playlist.
ItemIds(its) == {its[i].id : i \in 1..Len(its)}

\* C5: a skipFirst call during which nothing else changes the playlist
\* returns false and deletes nothing when the playlist was empty; otherwise
\* it makes one delete call, for the item that was first, returns true,
\* and leaves the other items in their order.
C5_SkipFirstRemovesHead ==
    [][\A p \in Procs :
          (/\ procs[p].pc # "returned"
           /\ procs'[p].pc = "returned"
           /\ procs'[p].op = "skip"
           /\ ~procs'[p].disturbed)
          => LET pr  == procs'[p]
                 del == Calls(pr, "playlistItems.delete")
             IN  IF pr.before = <<>>
                 THEN /\ pr.result = Some(FALSE)
                      /\ \A i \in 1..Len(pr.log) :
                            pr.log[i].ev # "playlistItems.delete"
                      /\ items'[pr.playlistId] = <<>>
                 ELSE /\ pr.result = Some(TRUE)
                      /\ Cardinality(del) = 1
                      /\ \A i \in del : pr.log[i].n = pr.before[1].id
                      /\ items'[pr.playlistId] = Tail(pr.before)]_vars

\* C5 witness: such a call has returned true on a playlist of two items.
C5_Witness ==
    \E p \in Procs :
        /\ procs[p].pc = "returned"
        /\ procs[p].op = "skip"
        /\ ~procs[p].disturbed
        /\ Len(procs[p].before) = 2
        /\ procs[p].result = Some(TRUE)

\* The items a step takes out of the playlists.
Removed == UNION {ItemIds(items[pl]) \ ItemIds(items'[pl]) : pl \in PlaylistIds}

\* C6: whatever runs beside it (other skipFirst calls, addToPlaylist calls,
\* edits made on YouTube), a skipFirst call takes at most one item out of
\* the playlist, in its delete step only, and that item is the one its own
\* fetch reported as first, an item that has been at the head of the list.
C6_SkipDeletesFetchedHead ==
    [][\A p \in Procs :
          (procs[p].op = "skip" /\ procs'[p].pc # procs[p].pc)
          => /\ Cardinality(Calls(procs'[p], "playlistItems.delete")) <= 1
             /\ Removed # {} =>
                   /\ procs[p].pc = "skipDelete"
                   /\ Removed = {procs[p].first}
                   /\ procs[p].first \in everHead]_vars

\* C6 witness: two overlapping skipFirst calls fetched the same first item;
\* one deleted it and returned true, the delete of the other one failed.
C6_Witness ==
    \E p, q \in Procs :
        /\ p # q
        /\ procs[p].op = "skip" /\ procs[q].op = "skip"
        /\ procs[p].pc = "returned" /\ procs[p].result = Some(TRUE)
        /\ procs[q].pc = "thrown"
        /\ procs[q].first = procs[p].first
        /\ procs[q].first # 0

\* C1: when a run of the watcher callback ends in which findMany and every
\* addUser, join and part call succeeded, and no other run was in flight,
\* channels holds exactly the names of the active users the run loaded.
C1_TickReconciles ==
    [][\A k \in Ticks :
          (/\ TickRunning(ticks[k])
           /\ ticks'[k].pc = "done"
           /\ ticks'[k].clean
           /\ ticks'[k].solo)
          => Range(channels') = Range(ticks'[k].currentUsers)]_vars

\* The successful calls named ev that the handlers of messages in the
\* channel of user t have made, each as <<process, position in its log>>.
Made(t, ev) ==
    {c \in Procs \X (1..8) :
        /\ procs[c[1]].kind = "msg"
        /\ procs[c[1]].tenant = t
        /\ c[2] <= Len(procs[c[1]].log)
        /\ procs[c[1]].log[c[2]].ev = ev
        /\ procs[c[1]].log[c[2]].ok}

\* C2: for a user whose row holds no playlist id, whatever the order and
\* overlap of the !sr messages, at most one playlist of the user's
\* playlistName has been created on YouTube.
C2_AtMostOnePlaylistCreated ==
    \A t \in Tenants :
        /\ Cardinality(Made(t, "playlists.insert")) <= 1
        /\ Cardinality({n \in 1..Len(playlists[t]) :
               PlaylistMatches(playlists[t][n].title, db[t].playlistName)}) <= 1

\* C4: over all !sr messages of one user the playlist id is written to the
\* row once, by a handler that read the row without an id, and a row that
\* holds an id keeps that id.
C4_IdWrittenOnceAndKept ==
    [][\A t \in Tenants :
          /\ Cardinality(Made(t, "user.update"))' <= 1
          /\ \A c \in Made(t, "user.update")' :
                 procs'[c[1]].dbUser.youtubePlaylistId = 0
          /\ (db[t].youtubePlaylistId # 0
                 => db'[t].youtubePlaylistId = db[t].youtubePlaylistId)]_vars

\* A handler of a !skip message from a chatter who is neither moderator
\* nor broadcaster, in a channel that has a user row.
UnprivilegedSkip(pr) ==
    /\ pr.kind = "msg"
    /\ pr.tenant \in Tenants
    /\ ToLowerCase(pr.text) = CmdSkip
    /\ ~pr.isMod
    /\ ~pr.isBroadcaster

\* C7: a !skip from a chatter who is neither moderator nor broadcaster
\* sends no reply and makes no call on the playlist (no call at all after
\* the row lookup), whether or not the user has a Google instance or a
\* playlist id.
C7_UnprivilegedSkipIgnored ==
    \A p \in Procs :
        UnprivilegedSkip(procs[p]) =>
            /\ procs[p].replies = <<>>
            /\ procs[p].pc \in {"findFirst", "done", "crashed"}
            /\ \A n \in 1..Len(procs[p].log) :
                   procs[p].log[n].ev = "user.findFirst"

\* C7 witness: such a !skip was handled to its end in the channel of a
\* user who has a Google instance, a playlist id and an item to skip.
C7_Witness ==
    \E p \in Procs :
        /\ UnprivilegedSkip(procs[p])
        /\ procs[p].pc = "done"
        /\ googleInstances[procs[p].tenant] # 0
        /\ procs[p].dbUser.youtubePlaylistId = 1
        /\ items[1] # <<>>

\* A handler of a !sr message whose query holds a direct link, in a
\* channel that has a user row.
DirectLinkRequest(pr) ==
    /\ pr.kind = "msg"
    /\ pr.tenant \in Tenants
    /\ StartsWith(ToLowerCase(pr.text), CmdSr)
    /\ extractYouTubeVideoId(Trim(Slice(pr.text, 4))) # None

LinkId(pr) == extractYouTubeVideoId(Trim(Slice(pr.text, 4)))[1]

\* https://www.youtube.com/watch?v=<id>
WatchUrl(id) ==
    <<"h","t","t","p","s",":","/","/","w","w","w",".">> \o WatchLit \o <<"v","=">> \o id

\* Whether a handler has called searchBestMatch.
Searched(pr) ==
    pr.pc = "search" \/ \E n \in 1..Len(pr.log) : pr.log[n].ev = "search"

\* Whether a handler has added video id to a playlist.
AddedVideo(pr, id) ==
    \E m \in 1..Len(pr.log) :
        /\ pr.log[m].ev = "playlistItems.insert"
        /\ pr.log[m].vid = id
        /\ pr.log[m].ok

\* C8 (as claimed): a !sr with a direct link never searches, the id is
\* added to the playlist, and the confirmation carries the watch URL
\* https://www.youtube.com/watch?v=<id>.
C8_ConfirmsWithWatchUrl ==
    \A p \in Procs :
        /\ Searched(procs[p]) => ~DirectLinkRequest(procs[p])
        /\ \A n \in 1..Len(procs[p].replies) :
               (procs[p].replies[n].msg = "AddedToQueue"
                   /\ DirectLinkRequest(procs[p])) =>
                   /\ AddedVideo(procs[p], LinkId(procs[p]))
                   /\ procs[p].replies[n].arg = WatchUrl(LinkId(procs[p]))

\* C8 (amended): a !sr with a direct link never searches, a confirmation
\* is sent only after the id was added to the playlist, and the
\* confirmation carries the short link https://youtu.be/<id>.
C8_ConfirmsWithShortLink ==
    \A p \in Procs :
        /\ Searched(procs[p]) => ~DirectLinkRequest(procs[p])
        /\ \A n \in 1..Len(procs[p].replies) :
               (procs[p].replies[n].msg = "AddedToQueue"
                   /\ DirectLinkRequest(procs[p])) =>
                   /\ AddedVideo(procs[p], LinkId(procs[p]))
                   /\ procs[p].replies[n].arg = ShortUrlPrefix \o LinkId(procs[p])

\* C8 witness: a !sr with a direct link was confirmed, and the item is in
\* the playlist of the user.
C8_Witness ==
    \E p \in Procs :
        /\ DirectLinkRequest(procs[p])
        /\ procs[p].pc = "done"
        /\ Len(procs[p].replies) = 1
        /\ procs[p].replies[1].msg = "AddedToQueue"
        /\ \E n \in 1..Len(items[procs[p].playlistId]) :
               items[procs[p].playlistId][n].videoId = LinkId(procs[p])

\* The artist names a search result holds, in any of the three shapes: an
\* array of artist objects (or names) in artists, one artist object or one
\* name in artist.
NamesHeld(s) ==
    IF Truthy(s.artists) /\ s.artists.kind = "arr"
    THEN SelectSeq([n \in 1..Len(s.artists.items) |-> s.artists.items[n].name],
                   LAMBDA x : x # <<>>)
    ELSE IF Truthy(s.artist) /\ s.artist.name # <<>>
    THEN <<s.artist.name>>
    ELSE <<>>

\* The score as the claim words it: the lower-cased query against the
\* lower-cased title followed by the space-joined artist names.
NamedScore(query, s) ==
    compareTwoStrings(ToLowerCase(query),
        ToLowerCase(TitleForHay(s) \o <<" ">> \o Join(NamesHeld(s), <<" ">>)))

\* The result the returned pick was built from: every result has its own
\* videoId.
PickedFrom(n) == sbOut # None /\ sbOut[1].videoId = sbResults[n].videoId

\* C11: the pick is built from a song whose score (query against title and
\* space-joined artist names, both lower-cased) no other song exceeds, and
\* from the first such song in catalog order.
C11_PicksFirstOfBestScore ==
    (sbPc = "done" /\ sbOut # None) =>
        \E n \in SongIndices(sbResults) :
            /\ PickedFrom(n)
            /\ \A m \in SongIndices(sbResults) :
                   /\ ~ScoreGreater(NamedScore(sbQuery, sbResults[m]),
                                    NamedScore(sbQuery, sbResults[n]))
                   /\ m < n => ScoreGreater(NamedScore(sbQuery, sbResults[n]),
                                            NamedScore(sbQuery, sbResults[m]))

\* C11 with the score the code computes, which takes the artist names
\* from the artists array only.
C11_PicksFirstOfBestCodeScore ==
    (sbPc = "done" /\ sbOut # None) =>
        \E n \in SongIndices(sbResults) :
            /\ PickedFrom(n)
            /\ \A m \in SongIndices(sbResults) :
                   /\ ~ScoreGreater(Score(sbQuery, sbResults[m]),
                                    Score(sbQuery, sbResults[n]))
                   /\ m < n => ScoreGreater(Score(sbQuery, sbResults[n]),
                                            Score(sbQuery, sbResults[m]))

\* A song whose artist has one of the three shapes the extraction reads
\* (an array in artists; else an object or a string in artist) or is
\* missing.
ArtistShaped(r) ==
    /\ r.artists.kind \in {"arr", "undef"}
    /\ r.artist.kind \in {"obj", "str", "undef"}

AllShaped(results) ==
    \A n \in SongIndices(results) : ArtistShaped(results[n])

\* The entries of an artist array that .filter(Boolean) keeps.
EntriesKept(r) ==
    IF Truthy(r.artists) /\ r.artists.kind = "arr"
    THEN Cardinality({n \in 1..Len(r.artists.items) :
            r.artists.items[n].kind # "str" \/ r.artists.items[n].name # <<>>})
    ELSE 0

\* C12 (as claimed): with song results of these shapes searchBestMatch
\* does not throw, and the artists of the pick are the names the result
\* holds, or the single placeholder "Unknown Artist" when it holds none.
C12_NamesOrSinglePlaceholder ==
    /\ (sbPc = "ready" /\ AllShaped(sbResults)) => ~SearchThrows(sbResults)
    /\ (sbPc = "done" /\ sbOut # None) =>
          \A n \in SongIndices(sbResults) :
              PickedFrom(n) =>
                  /\ Len(sbOut[1].artists) >= 1
                  /\ sbOut[1].artists =
                        IF NamesHeld(sbResults[n]) # <<>>
                        THEN NamesHeld(sbResults[n])
                        ELSE <<UnknownArtist>>

\* C12 (amended): with song results of these shapes searchBestMatch does
\* not throw, and the artists of the pick are not empty: the names the
\* result holds, with the placeholder "Unknown Artist" in the place of
\* every entry of an artist array that has no name, and the single
\* placeholder when the result holds no artist at all.
C12_NamesOrPlaceholders ==
    /\ (sbPc = "ready" /\ AllShaped(sbResults)) => ~SearchThrows(sbResults)
    /\ (sbPc = "done" /\ sbOut # None) =>
          \A n \in SongIndices(sbResults) :
              PickedFrom(n) =>
                  LET out == sbOut[1].artists
                  IN  /\ Len(out) >= 1
                      /\ SelectSeq(out, LAMBDA x : x # UnknownArtist)
                            = NamesHeld(sbResults[n])
                      /\ Len(out) = IF EntriesKept(sbResults[n]) = 0 THEN 1
                                    ELSE EntriesKept(sbResults[n])

\* C12 witness: picks were built from a result with a single artist name
\* in artist, and from one without any artist.
C12_Witness ==
    /\ sbPc = "done"
    /\ sbOut # None
    /\ \E n \in SongIndices(sbResults) :
          /\ PickedFrom(n)
          /\ sbResults[n].artists.kind = "undef"
          /\ sbResults[n].artist.kind = "str"
          /\ sbOut[1].artists = <<sbResults[n].artist.name>>
          /\ \E m \in SongIndices(sbResults) :
                 sbResults[m].artists.kind = "undef"
                     /\ sbResults[m].artist.kind = "undef"

\* A message handler in the channel of user t.
HandlerOf(p, t) == procs[p].kind = "msg" /\ procs[p].tenant = t

\* C13: a Google instance that is in the Map for a user stays the one in
\* the Map (nothing removes or replaces it), and a handler that calls
\* getGoogleForUser while the Map holds an instance gets that instance
\* without findUnique and without initialize.
C13_CachedInstanceKept ==
    [][\A t \in Tenants :
          googleInstances[t] # 0 =>
              /\ googleInstances'[t] = googleInstances[t]
              /\ \A p \in Procs :
                     (HandlerOf(p, t)' /\ procs[p].pc = "findFirst"
                         /\ procs'[p].inTry) =>
                         /\ procs'[p].google = googleInstances[t]
                         /\ procs'[p].pc \notin {"findUnique", "init"}]_vars

\* C14: when google.initialize() rejects, the handler's catch gets the
\* error, the instance that failed is never the one in the Map, and every
\* handler that initializes has constructed an instance of its own.
C14_FailedInitNotCached ==
    \A p \in Procs :
        /\ (procs[p].kind = "msg" /\ procs[p].err = "init") =>
               /\ googleInstances[procs[p].tenant] # procs[p].google
               /\ procs[p].pc \in {"say", "done"}
               /\ procs[p].sayText = CatchReply(procs[p].cmd)
        /\ (procs[p].kind = "msg" /\ procs[p].pc = "init") =>
               /\ procs[p].google # 0
               /\ \A q \in Procs \ {p} : procs[q].google # procs[p].google

\* C14 witness: after a failed initialize for a user a later handler for
\* the same user constructed and initialized a new instance.
C14_Witness ==
    \E p \in Procs : \E q \in Procs :
        /\ procs[p].kind = "msg" /\ procs[p].err = "init"
        /\ procs[p].pc = "done"
        /\ HandlerOf(q, procs[p].tenant)
        /\ procs[q].google > procs[p].google
        /\ googleInstances[procs[p].tenant] = procs[q].google

\* A handler of a !sr message with a query, in the channel of a user
\* without a Google refresh token.
UnlinkedRequest(pr) ==
    /\ pr.kind = "msg"
    /\ pr.tenant \in Tenants
    /\ ~db[pr.tenant].googleRefreshToken
    /\ StartsWith(ToLowerCase(pr.text), CmdSr)
    /\ Trim(Slice(pr.text, 4)) # <<>>

\* C15: for a user without a refresh token getGoogleForUser gives null and
\* puts nothing in the Map, and a !sr with a query makes no call but the
\* two row lookups and is answered "not connected" (when the lookups and
\* the say succeed).
C15_UnlinkedRequestNotConnected ==
    \A p \in Procs :
        UnlinkedRequest(procs[p]) =>
            /\ procs[p].google = 0
            /\ googleInstances[procs[p].tenant] = 0
            /\ procs[p].pc \in {"findFirst", "findUnique", "say", "done", "crashed"}
            /\ \A n \in 1..Len(procs[p].log) :
                   procs[p].log[n].ev \in {"user.findFirst", "user.findUnique", "say"}
            /\ (procs[p].pc = "done" /\ procs[p].log = <<>>) =>
                   procs[p].replies = <<Reply("NotConnected", <<>>)>>
            /\ db[procs[p].tenant].youtubePlaylistId = 0
            /\ playlists[procs[p].tenant] = <<>>

\* C15 witness: such a request was answered.
C15_Witness ==
    \E p \in Procs :
        /\ UnlinkedRequest(procs[p])
        /\ procs[p].pc = "done"
        /\ procs[p].replies = <<Reply("NotConnected", <<>>)>>

\* A handler in which a call of getGoogleForUser, of a Google method or of
\* the search failed inside the try block of its command.
FailedInTry(pr) ==
    /\ pr.kind = "msg"
    /\ pr.err \in {"findUnique", "init", "search", "auth", "api"}

\* The failure reply of the command a message text holds.
FailureReplyFor(text) ==
    IF StartsWith(ToLowerCase(text), CmdSr) THEN Reply("SrWentWrong", <<>>)
    ELSE IF ToLowerCase(text) = CmdNp THEN Reply("NpCouldNotFetch", <<>>)
    ELSE Reply("SkipCouldNot", <<>>)

\* C16 (as claimed): when such a call fails the handler sends one failure
\* reply, the same for every command and every error.
C16_OneReplyForAll ==
    \A p \in Procs : \A q \in Procs :
        (FailedInTry(procs[p]) /\ FailedInTry(procs[q])) =>
            /\ procs[p].pc \in {"say", "done"}
            /\ Len(procs[p].replies) <= 1
            /\ procs[p].sayText = procs[q].sayText

\* C16 (amended): when such a call fails the handler sends one failure
\* reply, which is fixed for each command (one text for !sr, one for !np,
\* one for !skip) and the same for every error.
C16_OneReplyPerCommand ==
    \A p \in Procs :
        FailedInTry(procs[p]) =>
            /\ procs[p].pc \in {"say", "done"}
            /\ procs[p].sayText = FailureReplyFor(procs[p].text)
            /\ procs[p].replies =
                  IF procs[p].pc = "done" THEN <<FailureReplyFor(procs[p].text)>>
                  ELSE <<>>

\* C16 witness: two !sr handlers failed with different errors (the access
\* token, the search) and sent the same reply.
C16_Witness ==
    \E p \in Procs : \E q \in Procs :
        /\ procs[p].kind = "msg" /\ procs[p].err = "auth"
        /\ procs[q].kind = "msg" /\ procs[q].err = "search"
        /\ procs[p].pc = "done" /\ procs[q].pc = "done"
        /\ procs[p].replies = <<Reply("SrWentWrong", <<>>)>>
        /\ procs[q].replies = procs[p].replies

\* C17: no error leaves the message handler, whichever call raised it.
C17_NoErrorEscapes ==
    \A p \in Procs : procs[p].kind = "msg" => procs[p].pc # "crashed"

\* C18: when getAccessToken fails inside a command the reply is the one
\* for a Google account that is not connected.
C18_AuthFailureNotConnected ==
    \A p \in Procs :
        (procs[p].kind = "msg" /\ procs[p].err = "auth") =>
            procs[p].sayText = Reply("NotConnected", <<>>)

\* C19: inside a run of the watcher callback a failing addUser, join or
\* part call does not end the run: the loops go on with the next user or
\* channel.
C19_FailureDoesNotStopTick ==
    [][\A k \in Ticks :
          (ticks[k].pc \in {"addUser", "join", "part"} /\ ticks'[k] # ticks[k])
              => ticks'[k].pc # "aborted"]_vars

\* The same for the first loop alone, whose calls are in a try block.
C19_JoinFailureDoesNotStopTick ==
    [][\A k \in Ticks :
          (ticks[k].pc \in {"addUser", "join"} /\ ticks'[k] # ticks[k])
              => ticks'[k].pc # "aborted"]_vars

\* channels without its first entry ch.
WithoutFirst(chs, ch) == Splice(chs, IndexOf(chs, ch))

\* C20: channels changes only in a step of the watcher in which a join or
\* part call succeeded: the joined name is added at the end, the parted
\* name is removed once; a step in which a call failed and a step of a
\* message handler leave channels as it is.
C20_ChannelsChangeAfterSuccess ==
    [][/\ channels' # channels =>
             \E k \in Ticks :
                 /\ ticks'[k] # ticks[k]
                 /\ ticks'[k].lastOk
                 /\ \/ /\ ticks[k].pc = "join"
                       /\ channels' = Append(channels, ticks[k].currentUsers[ticks[k].i])
                    \/ /\ ticks[k].pc = "part"
                       /\ ticks[k].target \in Range(channels)
                       /\ channels' = WithoutFirst(channels, ticks[k].target)
       /\ \A k \in Ticks :
             (TickRunning(ticks[k]) /\ ticks'[k] # ticks[k] /\ ~ticks'[k].lastOk)
                 => channels' = channels
       /\ procs' # procs => channels' = channels]_vars

\* C20 witness: a run of the watcher ended in which a join failed and the
\* user is not in channels, beside a message that was answered.
C20_Witness ==
    /\ ticks[1].pc = "done"
    /\ ~ticks[1].clean
    /\ \E n \in 1..Len(ticks[1].currentUsers) :
          ticks[1].currentUsers[n] \notin Range(channels)
    /\ procs[1].pc = "done"
    /\ procs[1].replies # <<>>

\* A step in which the dashboard flips no isActive and no call of the
\* watcher is rejected.
QuietStep ==
    /\ active' = active
    /\ \A k \in Ticks : ticks'[k] # ticks[k] => ticks'[k].lastOk

\* channels names exactly the active users.
Joined == Range(channels) = active

\* C21: when from some point on the active users stay the same and the
\* calls of the watcher succeed, channels in the end names exactly the
\* active users and stays so; and a run that has read the active users
\* starts with addUser for the first of them that channels does not hold,
\* whatever happened to that user in the run before.
C21_EventuallyJoined ==
    /\ (<>[][QuietStep]_vars) => <>[]Joined
    /\ [][\A k \in Ticks :
             (/\ ticks[k].pc = "findMany"
              /\ ticks'[k].pc # "findMany"
              /\ ticks'[k].lastOk
              /\ \E h \in active : h \notin Range(channels))
                 => /\ ticks'[k].pc = "addUser"
                    /\ ticks'[k].currentUsers[ticks'[k].i] \in active \ Range(channels)]_vars

\* C21 witness: a run ended in which a join failed, the run after it
\* ended with every call resolved, and channels names the active users.
C21_Witness ==
    /\ ticks[1].pc = "done"
    /\ ~ticks[1].clean
    /\ ticks[2].pc = "done"
    /\ ticks[2].clean
    /\ Len(ticks[1].currentUsers) = 1
    /\ ticks[2].currentUsers = ticks[1].currentUsers
    /\ active = Range(ticks[1].currentUsers)
    /\ Joined

EventsNamed(pr, ev) == {n \in 1..Len(pr.log) : pr.log[n].ev = ev}

\* The calls of pr to the YouTube playlist API.
PlaylistCalls(pr) ==
    {n \in 1..Len(pr.log) :
        pr.log[n].ev \in {"playlists.list", "playlists.insert",
                          "playlistItems.insert", "playlistItems.list",
                          "playlistItems.delete"}}

\* pr handles !skip of a moderator or of the broadcaster.
PrivilegedSkip(pr) ==
    /\ pr.kind = "msg"
    /\ pr.cmd = "skip"
    /\ pr.isMod \/ pr.isBroadcaster

\* getGoogleForUser has resolved in pr.
PastSession(pr) ==
    /\ pr.pc \notin {"findUnique", "init"}
    /\ \A n \in 1..Len(pr.log) :
          pr.log[n].ev \in {"user.findUnique", "initialize"} => pr.log[n].ok

\* The handler has nothing to work on: no Google instance or no playlist
\* id in the row.
NoPlaylistCase(pr) == pr.google = 0 \/ pr.dbUser.youtubePlaylistId = 0

\* pr has sent its reply, or is sending it, and no call of it has failed.
Answered(pr) == pr.pc \in {"say", "done"} /\ pr.err = "none"

\* What is in the channel once pr is done is the reply it sent.
RepliedAsSent(pr) == pr.pc = "done" => pr.replies = <<pr.sayText>>

\* skipFirst returned true to pr: its delete call resolved.
SkipReturnedTrue(pr) ==
    \E n \in EventsNamed(pr, "playlistItems.delete") : pr.log[n].ok

\* skipFirst returned false to pr: its list call resolved with no item
\* and no delete was called.
SkipReturnedFalse(pr) ==
    /\ EventsNamed(pr, "playlistItems.delete") = {}
    /\ \E n \in EventsNamed(pr, "playlistItems.list") : pr.log[n].ok

\* C23: !skip of a moderator or broadcaster, once getGoogleForUser has
\* resolved: without an instance or without a playlist id it answers
\* 'No playlist found!' and calls nothing of the playlist API; else it
\* calls skipFirst once, on the playlist id of the row, and answers
\* 'Skipped!' exactly when skipFirst returned true and 'Queue is empty!'
\* exactly when it returned false.
C23_SkipReplies ==
    \A p \in Procs :
        LET pr == procs[p]
        IN  (PrivilegedSkip(pr) /\ PastSession(pr)) =>
                IF NoPlaylistCase(pr)
                THEN /\ PlaylistCalls(pr) = {}
                     /\ EventsNamed(pr, "getAccessToken") = {}
                     /\ pr.op = "none"
                     /\ Answered(pr) =>
                            /\ pr.sayText = Reply("NoPlaylist", <<>>)
                            /\ RepliedAsSent(pr)
                ELSE /\ pr.op = "skip"
                     /\ pr.playlistId = pr.dbUser.youtubePlaylistId
                     /\ Cardinality(EventsNamed(pr, "playlistItems.list")) <= 1
                     /\ Cardinality(EventsNamed(pr, "playlistItems.delete")) <= 1
                     /\ Cardinality(EventsNamed(pr, "getAccessToken")) <= 1
                     /\ PlaylistCalls(pr) \subseteq
                            EventsNamed(pr, "playlistItems.list")
                                \cup EventsNamed(pr, "playlistItems.delete")
                     /\ Answered(pr) =>
                            /\ SkipReturnedTrue(pr) \/ SkipReturnedFalse(pr)
                            /\ pr.sayText = Reply("Skipped", <<>>)
                                   <=> SkipReturnedTrue(pr)
                            /\ pr.sayText = Reply("QueueEmpty", <<>>)
                                   <=> SkipReturnedFalse(pr)
                            /\ RepliedAsSent(pr)

\* C23 witness: one !skip was answered 'Skipped!' after its delete, the
\* other 'Queue is empty!' after a list that found nothing.
C23_Witness ==
    /\ PrivilegedSkip(procs[1])
    /\ procs[1].replies = <<Reply("Skipped", <<>>)>>
    /\ SkipReturnedTrue(procs[1])
    /\ PrivilegedSkip(procs[2])
    /\ procs[2].replies = <<Reply("QueueEmpty", <<>>)>>
    /\ SkipReturnedFalse(procs[2])

\* A !skip of a moderator was answered 'No playlist found!'.
C23_WitnessNoPlaylist ==
    /\ PrivilegedSkip(procs[1])
    /\ NoPlaylistCase(procs[1])
    /\ procs[1].replies = <<Reply("NoPlaylist", <<>>)>>

\* pr handles !np.
NowPlayingCommand(pr) == pr.kind = "msg" /\ pr.cmd = "np"

\* A text of the first item, or the placeholder when the item has none.
OrUnknown(text) == IF text = <<>> THEN <<"U","n","k","n","o","w","n">> ELSE text

\* What !np says of playlist pl as it is: nothing is playing, or the title
\* and the owner channel of its first item.
NowPlayingOf(pl) ==
    IF items[pl] = <<>>
    THEN Reply("NothingPlaying", <<>>)
    ELSE Reply("NowPlaying",
               OrUnknown(items[pl][1].title) \o <<" ","b","y"," ">>
                   \o OrUnknown(items[pl][1].owner))

\* C24: !np, once getGoogleForUser has resolved: without an instance or
\* without a playlist id it answers 'No playlist found!' and calls
\* nothing of the playlist API; else it lists the playlist of the row once
\* and, when the list resolves, answers 'Nothing is playing right now!'
\* exactly when the playlist is empty and else with the title and the
\* owner channel of the first item ("Unknown" for one the item does not
\* carry). No step of the handler changes a playlist, its items or a row.
C24_NowPlayingReadsOnly ==
    [][\A p \in Procs :
          LET pr  == procs[p]
              nxt == procs'[p]
          IN  (NowPlayingCommand(nxt) /\ nxt # pr) =>
                  /\ UNCHANGED <<db, playlists, items>>
                  /\ PastSession(nxt) =>
                         IF NoPlaylistCase(nxt)
                         THEN /\ PlaylistCalls(nxt) = {}
                              /\ nxt.op = "none"
                              /\ Answered(nxt) =>
                                     /\ nxt.sayText = Reply("NoPlaylist", <<>>)
                                     /\ nxt.pc = "done" =>
                                            nxt.replies = <<nxt.sayText>>
                         ELSE /\ nxt.op = "np"
                              /\ nxt.playlistId = nxt.dbUser.youtubePlaylistId
                              /\ PlaylistCalls(nxt) =
                                     EventsNamed(nxt, "playlistItems.list")
                              /\ Cardinality(PlaylistCalls(nxt)) <= 1
                              /\ (pr.pc = "npList" /\ Answered(nxt)) =>
                                     nxt.sayText = NowPlayingOf(pr.playlistId)
                              /\ (nxt.pc = "done" /\ nxt.err = "none") =>
                                     nxt.replies = <<nxt.sayText>>]_vars

\* C24 witness: a request has put an item into the playlist and !np was
\* answered with its title and owner channel; the item is still there.
C24_Witness ==
    \E p \in Procs :
        /\ NowPlayingCommand(procs[p])
        /\ procs[p].replies =
               <<Reply("NowPlaying", <<"T"," ","b","y"," ","C">>)>>
        /\ items[procs[p].playlistId] # <<>>
        /\ items[procs[p].playlistId][1].title = <<"T">>

\* The text is the request command with nothing after it but white space.
NoArgumentRequest(text) == Trim(ToLowerCase(text)) = <<"!","s","r">>

\* C25: a request without an argument, in the channel of a user with a
\* row, is answered with 'Please provide a song name or YouTube link!';
\* the handler looks up no Google instance, searches nothing, calls
\* nothing of the playlist API and writes nothing to the row.
C25_NoArgumentPrompts ==
    \A p \in Procs :
        LET pr == procs[p]
        IN  (pr.kind = "msg" /\ pr.dbUser.found /\ NoArgumentRequest(pr.text)) =>
                /\ pr.pc \in {"say", "done", "crashed"}
                /\ pr.google = 0
                /\ pr.op = "none"
                /\ \A n \in 1..Len(pr.log) : pr.log[n].ev = "say"
                /\ pr.pc \in {"say", "done"} =>
                       pr.sayText = Reply("Prompt", <<>>)
                /\ pr.pc = "done" => pr.replies = <<Reply("Prompt", <<>>)>>

\* The method process pr runs has failed in ensureGoogleAccess.
AccessFailed(pr) ==
    \E n \in EventsNamed(pr, "getAccessToken") : ~pr.log[n].ok

\* C26: each of ensurePlaylist, addToPlaylist, nowPlaying, skipFirst and
\* clearPlaylist asks for the access token before its first call to the
\* playlist API; when that fails the method calls nothing of the playlist
\* API and throws the authentication error, which no failing API call
\* throws.
C26_AccessCheckedFirst ==
    \A p \in Procs :
        LET pr == procs[p]
        IN  pr.kind = "call" =>
                /\ pr.pc # "access" => Len(pr.log) >= 1
                /\ Len(pr.log) >= 1 => pr.log[1].ev = "getAccessToken"
                /\ AccessFailed(pr) =>
                       /\ PlaylistCalls(pr) = {}
                       /\ pr.pc = "thrown"
                /\ pr.pc = "thrown" => (pr.err = "auth" <=> AccessFailed(pr))

\* C26 witness: clearPlaylist ended with the authentication error before
\* any API call, and another method with the error of a failed API call.
C26_Witness ==
    /\ procs[1].op = "clear"
    /\ procs[1].pc = "thrown"
    /\ procs[1].err = "auth"
    /\ procs[2].pc = "thrown"
    /\ procs[2].err = "api"
    /\ PlaylistCalls(procs[2]) # {}

\* clearPlaylist has deleted two items and returned.
C26_WitnessCleared ==
    \E p \in Procs :
        /\ procs[p].op = "clear"
        /\ procs[p].pc = "returned"
        /\ Cardinality(EventsNamed(procs[p], "playlistItems.delete")) = 2

\* The replies process pr has sent or is sending.
RepliesOf(pr) ==
    {pr.replies[n] : n \in 1..Len(pr.replies)}
        \cup (IF pr.pc = "say" THEN {pr.sayText} ELSE {})

\* The ids of the playlists in the YouTube account of user t.
PlaylistsOf(t) == {playlists[t][i].id : i \in 1..Len(playlists[t])}

\* C27: a handler that confirms a request ('✓ Added to queue: ...' or
\* '✓ Added: ...') has before that made exactly one playlistItems.insert
\* call, which resolved, with the video id the reply confirms (the id of
\* the link, or of the song the search picked), into a playlist of the
\* account of the user of the channel.
C27_ConfirmedAfterOneAppend ==
    \A p \in Procs :
        LET pr  == procs[p]
            ins == EventsNamed(pr, "playlistItems.insert")
        IN  \A r \in RepliesOf(pr) :
                r.msg \in {"AddedToQueue", "Added"} =>
                    /\ Cardinality(ins) = 1
                    /\ \A n \in ins :
                          /\ pr.log[n].ok
                          /\ pr.log[n].n \in PlaylistsOf(pr.tenant)
                          /\ r.msg = "AddedToQueue" =>
                                 /\ extractYouTubeVideoId(pr.query) = Some(pr.log[n].vid)
                                 /\ r.arg = ShortUrlPrefix \o pr.log[n].vid
                          /\ r.msg = "Added" =>
                                 /\ pr.best # None
                                 /\ pr.best[1].videoId = pr.log[n].vid
                                 /\ r = AddedReply(pr.best[1])

\* C27 witness: a request by name and a request by link were both
\* confirmed, each after its insert.
C27_Witness ==
    /\ procs[1].replies # <<>>
    /\ procs[1].replies[1].msg = "Added"
    /\ procs[2].replies # <<>>
    /\ procs[2].replies[1].msg = "AddedToQueue"
    /\ \A p \in Procs : EventsNamed(procs[p], "playlistItems.insert") # {}

\* The call process p has just been answered in this step, if any.
JustCalled(p) ==
    /\ procs'[p].kind = "msg"
    /\ Len(procs'[p].log) = Len(procs[p].log) + 1

LastEvent(pr) == pr.log[Len(pr.log)]

\* The playlist a resolved playlistItems call of a handler worked on.
PlaylistTouched(e) ==
    IF e.ev = "playlistItems.delete" THEN PlaylistOfItem(e.n) ELSE e.n

\* The handler of p shares its Google instance with no handler of a
\* channel of another user.
OwnSession(p) ==
    procs'[p].google # 0 =>
        \A q \in Procs :
            (procs'[q].kind = "msg" /\ procs'[q].tenant # procs'[p].tenant)
                => procs'[q].google # procs'[p].google

\* Only the row of the user of the channel changes in the step.
OwnRecord(p) ==
    \A t \in Tenants \ {procs'[p].tenant} : db'[t] = db[t]

\* C28: whatever the handlers of several channels do side by side, a
\* handler adds to, lists and deletes from the playlist whose id the row
\* of the user of its channel holds and no other, works with a Google
\* instance no handler of another user's channel works with, and writes
\* the row of that user alone.
C28_TenantsIsolated ==
    [][\A p \in Procs :
          JustCalled(p) =>
              LET e == LastEvent(procs'[p])
              IN  /\ (e.ev \in {"playlistItems.insert", "playlistItems.list",
                                "playlistItems.delete"} /\ e.ok)
                         => PlaylistTouched(e) = db[procs'[p].tenant].youtubePlaylistId
                  /\ OwnSession(p)
                  /\ OwnRecord(p)]_vars

\* The same with any playlist of the account of the user in place of the
\* one the row holds: nothing of another user is touched.
C28_OtherTenantsUntouched ==
    [][\A p \in Procs :
          JustCalled(p) =>
              LET e == LastEvent(procs'[p])
              IN  /\ (e.ev \in {"playlistItems.insert", "playlistItems.list",
                                "playlistItems.delete"} /\ e.ok)
                         => PlaylistTouched(e) \in PlaylistsOf(procs'[p].tenant)
                  /\ OwnSession(p)
                  /\ OwnRecord(p)]_vars

\* searchBestMatch has resolved in pr with null: the search gave no song.
SearchFoundNothing(pr) ==
    /\ pr.kind = "msg"
    /\ pr.cmd = "sr"
    /\ pr.best = None
    /\ \E n \in EventsNamed(pr, "search") : pr.log[n].ok

\* C29: a request by name whose search gives no song is answered with
\* 'No results found for "<query>"'; the handler calls nothing of the
\* playlist API (no playlist is listed or created, nothing is added),
\* does not write the row, and none of its steps changes a playlist, an
\* item or a row.
C29_NoSongNoEffect ==
    [][\A p \in Procs :
          LET pr  == procs[p]
              nxt == procs'[p]
          IN  (nxt # pr /\ SearchFoundNothing(nxt)) =>
                  /\ UNCHANGED <<db, playlists, items>>
                  /\ PlaylistCalls(nxt) = {}
                  /\ EventsNamed(nxt, "user.update") = {}
                  /\ nxt.op = "none"
                  /\ nxt.playlistId = 0
                  /\ pr.pc = "search" =>
                         /\ nxt.pc = "say"
                         /\ nxt.sayText = Reply("NoResults", nxt.query)
                  /\ (nxt.pc = "done" /\ nxt.err = "none") =>
                         nxt.replies = <<Reply("NoResults", nxt.query)>>]_vars

\* C29 witness: a request by name was answered with 'No results found'
\* after its search had resolved.
C29_Witness ==
    \E p \in Procs :
        /\ SearchFoundNothing(procs[p])
        /\ procs[p].pc = "done"
        /\ procs[p].query # <<>>
        /\ procs[p].replies = <<Reply("NoResults", procs[p].query)>>

\* The line starts with none of the three command words.
NotACommand(text) ==
    LET lower == ToLowerCase(text)
    IN  /\ ~StartsWith(lower, <<"!","s","r">>)
        /\ ~StartsWith(lower, <<"!","n","p">>)
        /\ ~StartsWith(lower, <<"!","s","k","i","p">>)

\* C30: a chat line puts at most one reply into the channel, whatever it
\* says and whichever calls fail; a line that is no command, or one in a
\* channel whose name has no row, gets no reply and leads to no call but
\* the lookup of the row.
C30_AtMostOneReply ==
    \A p \in Procs :
        LET pr == procs[p]
        IN  pr.kind = "msg" =>
                /\ Len(pr.replies) <= 1
                /\ (pr.tenant \notin Tenants \/ NotACommand(pr.text)) =>
                       /\ pr.replies = <<>>
                       /\ pr.sayText = Reply("none", <<>>)
                       /\ pr.pc \in {"findFirst", "done", "crashed"}
                       /\ pr.google = 0
                       /\ pr.op = "none"
                       /\ \A n \in 1..Len(pr.log) :
                              pr.log[n].ev = "user.findFirst"

\* C30 witness: a line that is no command was handled without a reply, and
\* a command whose first say was rejected was answered once, by its catch
\* block.
C30_Witness ==
    /\ procs[1].pc = "done"
    /\ procs[1].dbUser.found
    /\ NotACommand(procs[1].text)
    /\ procs[2].pc = "done"
    /\ Len(procs[2].replies) = 1
    /\ \E n \in EventsNamed(procs[2], "say") : ~procs[2].log[n].ok

\* The line in a channel without a row was handled.
C30_WitnessNoRow ==
    \E p \in Procs :
        /\ procs[p].kind = "msg"
        /\ procs[p].tenant \notin Tenants
        /\ procs[p].pc = "done"

\* C31: channels never holds a name twice, whatever runs of the watcher
\* have taken place, runs that overlap included.
C31_NoChannelTwice ==
    \A m, n \in 1..Len(channels) : channels[m] = channels[n] => m = n

====
